---------------------------- MODULE Spec2Model ----------------------------
(***************************************************************************)
(* A model of the structured-model framework of Causeway:                  *)
(*   - Semiring and ViterbiDecoder        (src/src/pipeline/models/        *)
(*                                          structured.py)                 *)
(*   - StructuredModel.test               (the same file)                  *)
(*   - FeaturizedModel / ClassifierModel  (src/src/pipeline/models.py)     *)
(*   - ClassBalancingModelWrapper         (the same file)                  *)
(*   - CRFModel                           (the same file)                  *)
(*                                                                         *)
(* Python indices are kept 0-based: a numpy array of shape (n,) is a       *)
(* function on 0..n-1.  Scores are integers, so the arithmetic is exact.   *)
(***************************************************************************)
EXTENDS Integers, Sequences, FiniteSets, TLC

VARIABLES
    decoder,    \* the ViterbiDecoder: [possible_states, semiring]
    vcall,      \* the last call made on the decoder, with its arguments
    vresult,    \* what that call returned or raised
    fm,         \* the ClassifierModel: construction status, feature_extractors
    feature_name_dictionary,  \* its NameDictionary: name -> id
    fm_call,    \* the call in progress or last made on the model
    extractor_calls,  \* the extractor methods called during that call, in order
    stest,      \* the StructuredModel.test call in progress or last made
    structured_calls,  \* the hooks and decoder calls it has made, in order
    rcall,      \* the last call of rebalance, with its arguments
    rresult,    \* what that call returned or raised
    crf,        \* the CRFModel, the file at model_file_path, the open taggers
    crf_call,   \* the CRFModel call in progress or last made
    crf_calls   \* the trainer, tagger and hook calls it has made, in order

viterbi_vars == <<decoder, vcall, vresult>>
fm_vars == <<fm, feature_name_dictionary, fm_call, extractor_calls>>
structured_vars == <<stest, structured_calls>>
rebalance_vars == <<rcall, rresult>>
crf_vars == <<crf, crf_call, crf_calls>>
vars == <<decoder, vcall, vresult, fm, feature_name_dictionary, fm_call,
          extractor_calls, stest, structured_calls, rcall, rresult, crf,
          crf_call, crf_calls>>

-----------------------------------------------------------------------------
(***************************************************************************)
(* Bounds of the explored inputs.                                          *)
(***************************************************************************)
\* The longest sequence (number of trellis columns) explored.
MaxPositions == 3

\* The numbers of states (trellis rows) explored.
StateCounts == {1, 2}

\* The values a node score takes.
NodeScoreValues == {-1, 0, 2}

\* The values a transition weight takes.
TransitionValues == {0, 2}

-----------------------------------------------------------------------------
(***************************************************************************)
(* Semiring (structured.py 139-151).                                       *)
(***************************************************************************)
Semirings == {"PLUS_MULTIPLY", "MAX_MULTIPLY", "MAX_PLUS"}

\* semiring.multiply: np.multiply for the two product semirings, np.add for
\* MAX_PLUS.
SemiringMultiply(sr, a, b) == IF sr = "MAX_PLUS" THEN a + b ELSE a * b

\* Mutant: PLUS_MULTIPLY built with an arg_sum as well.
HasArgSumAlways(sr) == sr \in {"PLUS_MULTIPLY", "MAX_MULTIPLY", "MAX_PLUS"}

\* Whether np_arg_sum was given: PLUS_MULTIPLY is built without it.
HasArgSum(sr) == sr \in {"MAX_MULTIPLY", "MAX_PLUS"}

\* Mutant: a sum that leaves out the first entry.
RECURSIVE NpSumSkipFirst(_, _)
NpSumSkipFirst(f, n) == IF n <= 1 THEN 0 ELSE NpSumSkipFirst(f, n - 1) + f[n - 1]

\* np.sum of a vector f on 0..n-1.
RECURSIVE NpSum(_, _)
NpSum(f, n) == IF n = 0 THEN 0 ELSE NpSum(f, n - 1) + f[n - 1]

\* Mutant: the minimum in place of the maximum.
NpMin(f, n) == CHOOSE v \in {f[i] : i \in 0..(n - 1)} :
                   \A i \in 0..(n - 1) : f[i] >= v

\* np.max of a vector f on 0..n-1 (n >= 1).
NpMax(f, n) == CHOOSE v \in {f[i] : i \in 0..(n - 1)} :
                   \A i \in 0..(n - 1) : f[i] <= v

\* Mutant: the last index of the maximum.
NpArgmaxLast(f, n) == CHOOSE i \in 0..(n - 1) :
                          /\ f[i] = NpMax(f, n)
                          /\ \A k \in (i + 1)..(n - 1) : f[k] # f[i]

\* np.argmax of a vector f on 0..n-1: the first index of the maximum.
NpArgmax(f, n) == CHOOSE i \in 0..(n - 1) :
                      /\ f[i] = NpMax(f, n)
                      /\ \A k \in 0..(i - 1) : f[k] # f[i]

\* semiring.sum
SemiringSum(sr, f, n) == IF sr = "PLUS_MULTIPLY" THEN NpSum(f, n) ELSE NpMax(f, n)

\* semiring.arg_sum (only called when HasArgSum)
SemiringArgSum(sr, f, n) == NpArgmax(f, n)

-----------------------------------------------------------------------------
(***************************************************************************)
(* ViterbiDecoder.run_viterbi (structured.py 160-233).                     *)
(*                                                                         *)
(* node_scores is a function state -> (position -> score);                 *)
(* transition_weights is [ndim |-> 2, w |-> i -> (j -> weight)] or         *)
(* [ndim |-> 3, w |-> t -> (i -> (j -> weight))].                          *)
(***************************************************************************)
\* A numpy array holds computed values: its entries are evaluated once, when
\* the array is assigned.
Stored(f) == f @@ << >>

NumStates(node_scores) == Cardinality(DOMAIN node_scores)
NumColumns(node_scores) == Cardinality(DOMAIN node_scores[0])

\* What predecessors[:, 0] = np.NaN stores in an int32 array.
NaNAsInt32 == (-2147483647) - 1

\* Lines 191-195: the transition matrix used to enter column column_index.
PredTransitionWeights(transition_weights, column_index) ==
    IF transition_weights.ndim > 2
    THEN transition_weights.w[column_index - 1]
    ELSE transition_weights.w

\* Mutant: the transition matrix read as [end state][start state].
PredecessorScoresTransposed(sr, pred_transition_weights, prev_column, S) ==
    Stored([i \in 0..(S - 1) |->
        Stored([j \in 0..(S - 1) |->
            SemiringMultiply(sr, pred_transition_weights[j][i], prev_column[i])])])

\* Lines 199-201: predecessor_scores[i][j], rows start states, columns end
\* states.
PredecessorScores(sr, pred_transition_weights, prev_column, S) ==
    Stored([i \in 0..(S - 1) |->
        Stored([j \in 0..(S - 1) |->
            SemiringMultiply(sr, pred_transition_weights[i][j], prev_column[i])])])

\* Lines 180-215: the arrays after the base case and the loop iterations for
\* columns 1..col.  path_scores and predecessors are kept column by column.
RECURSIVE TrellisColumns(_, _, _, _, _)
TrellisColumns(sr, node_scores, transition_weights, return_best_path, col) ==
    LET S == NumStates(node_scores) IN
    IF col = 0
    THEN [path_scores |-> [t \in {0} |-> [s \in 0..(S - 1) |-> node_scores[s][0]]],
          predecessors |->
              IF return_best_path
              THEN [t \in {0} |-> [s \in 0..(S - 1) |-> NaNAsInt32]]
              ELSE << >>]
    ELSE
      LET prev == TrellisColumns(sr, node_scores, transition_weights,
                                 return_best_path, col - 1)
          ptw  == PredTransitionWeights(transition_weights, col)
          predecessor_scores ==
              PredecessorScores(sr, ptw, prev.path_scores[col - 1], S)
          \* axis=0: for each end state j, over the start states i
          FromStarts(j) == [i \in 0..(S - 1) |-> predecessor_scores[i][j]]
          predecessor_indices ==
              Stored([j \in 0..(S - 1) |-> SemiringArgSum(sr, FromStarts(j), S)])
          summed_scores ==
              IF return_best_path
              THEN [j \in 0..(S - 1) |->
                       predecessor_scores[predecessor_indices[j]][j]]
              ELSE [j \in 0..(S - 1) |-> SemiringSum(sr, FromStarts(j), S)]
          new_column ==
              Stored([s \in 0..(S - 1) |->
                  SemiringMultiply(sr, node_scores[s][col], summed_scores[s])])
      IN [path_scores |->
              [t \in 0..col |-> IF t = col THEN new_column
                                ELSE prev.path_scores[t]],
          predecessors |->
              IF return_best_path
              THEN [t \in 0..col |-> IF t = col THEN predecessor_indices
                                     ELSE prev.predecessors[t]]
              ELSE << >>]

\* Mutant: every earlier position takes the predecessor of the final state.
RECURSIVE BestStatePathOfFinal(_, _, _, _)
BestStatePathOfFinal(predecessors, best_final_index, num_columns, pos) ==
    IF pos = num_columns - 1
    THEN [path |-> [t \in {pos} |-> best_final_index], read |-> {}]
    ELSE LET later == BestStatePathOfFinal(predecessors, best_final_index,
                                           num_columns, pos + 1)
         IN [path |->
                [t \in pos..(num_columns - 1) |->
                    IF t = pos THEN predecessors[pos + 1][best_final_index]
                    ELSE later.path[t]],
             read |-> later.read \cup {pos + 1}]

\* Lines 219-224: best_state_path after the assignments to positions
\* num_columns-1 down to pos, and the columns of predecessors that were read
\* for them: position i - 1 is taken from predecessors[best_state_path[i], i].
RECURSIVE BestStatePath(_, _, _, _)
BestStatePath(predecessors, best_final_index, num_columns, pos) ==
    IF pos = num_columns - 1
    THEN [path |-> [t \in {pos} |-> best_final_index], read |-> {}]
    ELSE LET later == BestStatePath(predecessors, best_final_index,
                                    num_columns, pos + 1)
         IN [path |->
                [t \in pos..(num_columns - 1) |->
                    IF t = pos THEN predecessors[pos + 1][later.path[pos + 1]]
                    ELSE later.path[t]],
             read |-> later.read \cup {pos + 1}]

\* Lines 226-228: the labels of possible_states (a Python list, 0-based) when
\* the list is truthy.
MapToPossibleStates(possible_states, best_state_path) ==
    IF Len(possible_states) > 0
    THEN [t \in DOMAIN best_state_path |-> possible_states[best_state_path[t] + 1]]
    ELSE best_state_path

NoPath == << >>

run_viterbi(dec, node_scores, transition_weights, return_best_path) ==
    LET sr == dec.semiring
        S == NumStates(node_scores)
        num_columns == NumColumns(node_scores)
    IN
    IF ~(HasArgSum(sr) \/ ~return_best_path)
    THEN \* line 176: the assert fails before any array is allocated
         [outcome |-> "AssertionError", score |-> 0, path |-> NoPath,
          columns_computed |-> 0, predecessors_read |-> {}]
    ELSE
      LET arrays == TrellisColumns(sr, node_scores, transition_weights,
                                   return_best_path, num_columns - 1)
          last_column == arrays.path_scores[num_columns - 1]
      IN
      IF return_best_path
      THEN LET best_final_index == SemiringArgSum(sr, last_column, S)
               reconstructed ==
                   BestStatePath(arrays.predecessors, best_final_index,
                                 num_columns, 0)
               best_state_path == reconstructed.path
           IN [outcome |-> "return",
               score |-> last_column[best_final_index],
               path |-> MapToPossibleStates(dec.possible_states, best_state_path),
               columns_computed |-> num_columns,
               predecessors_read |-> reconstructed.read]
      ELSE [outcome |-> "return",
            score |-> SemiringSum(sr, last_column, S),
            path |-> NoPath,
            columns_computed |-> num_columns, predecessors_read |-> {}]

\* ViterbiDecoder.decode (structured.py 235-241): always asks for the path and
\* returns only the path.
decode(dec, scores) ==
    LET r == run_viterbi(dec, scores.node_scores, scores.transition_weights, TRUE)
    IN IF r.outcome = "return"
       THEN [outcome |-> "return", score |-> 0, path |-> r.path,
             columns_computed |-> r.columns_computed,
             predecessors_read |-> r.predecessors_read]
       ELSE r

-----------------------------------------------------------------------------
(***************************************************************************)
(* The trellises explored.                                                 *)
(***************************************************************************)
NodeScoreArrays(S, T) == [0..(S - 1) -> [0..(T - 1) -> NodeScoreValues]]

\* A num_states x num_states matrix with one weight on the diagonal, one above
\* it and one below it.
TransitionMatrix(S, diag, up, down) ==
    [i \in 0..(S - 1) |->
        [j \in 0..(S - 1) |-> IF i = j THEN diag ELSE IF i < j THEN up ELSE down]]

StationaryMatrices(S) ==
    {TransitionMatrix(S, d, u, l) :
        d \in TransitionValues, u \in TransitionValues, l \in TransitionValues}

\* The slices a position-dependent tensor is built from.
TensorSlices(S) ==
    {TransitionMatrix(S, 2, 2, 2), TransitionMatrix(S, 1, 2, 0)}

TransitionWeights(S, T) ==
    {[ndim |-> 2, w |-> m] : m \in StationaryMatrices(S)}
    \cup {[ndim |-> 3, w |-> m] : m \in [0..(T - 2) -> TensorSlices(S)]}

Labels == <<"A", "B">>

-----------------------------------------------------------------------------
(***************************************************************************)
(* FeaturizedModel and ClassifierModel (models.py 43-217).                 *)
(*                                                                         *)
(* A Python string is a sequence of tokens, ":" being the separator        *)
(* character: 'identity:add1' is <<"identity", ":", "add1">> and           *)
(* 'identity=1' is <<"identity", "=", "1">>.                               *)
(***************************************************************************)
\* ConjoinedFeatureExtractor.SEPARATOR (models.py 49)
SEPARATOR == ":"

\* str.split(SEPARATOR): the pieces between the separators, empty ones kept.
RECURSIVE Split(_)
Split(str) ==
    IF \A i \in 1..Len(str) : str[i] # SEPARATOR
    THEN <<str>>
    ELSE LET i == CHOOSE i \in 1..Len(str) :
                    /\ str[i] = SEPARATOR
                    /\ \A k \in 1..(i - 1) : str[k] # SEPARATOR
         IN <<SubSeq(str, 1, i - 1)>> \o Split(SubSeq(str, i + 1, Len(str)))

\* SEPARATOR.join(components)
RECURSIVE Join(_)
Join(components) ==
    IF Len(components) = 0 THEN << >>
    ELSE IF Len(components) = 1 THEN components[1]
    ELSE components[1] \o <<SEPARATOR>> \o Join(Tail(components))

\* x in list
InList(x, list) == \E i \in 1..Len(list) : list[i] = x

\* A simple FeatureExtractor(name, extractor_fn, feature_type).
Extractor(name, fn, feature_type) ==
    [name |-> name, fn |-> fn, feature_type |-> feature_type, extractors |-> << >>]

\* The extractor functions: lambda x: x and lambda x: x + 1 of the tests, and
\* x - 1 for a numeric feature that can be zero.
ApplyFn(fn, x) ==
    CASE fn = "identity" -> x
      [] fn = "add1" -> x + 1
      [] fn = "minus1" -> x - 1

\* ConjoinedFeatureExtractor.__init__ (models.py 51-59): the extractor, or the
\* error raised for a component that is not categorical.
NewConjoined(name, extractors) ==
    IF \E i \in 1..Len(extractors) : extractors[i].feature_type # "Categorical"
    THEN [raised |-> "FeatureExtractionError",
          extractor |-> Extractor(name, "conjoined", "Categorical")]
    ELSE [raised |-> "none",
          extractor |-> [name |-> name, fn |-> "conjoined",
                         feature_type |-> "Categorical",
                         extractors |-> extractors]]

\* Lines 96-97: the configured extractors whose name is one of extractor_names,
\* in configured order.
ExtractorsNamedIn(feature_extractors, extractor_names) ==
    SelectSeq(feature_extractors, LAMBDA e : InList(e.name, extractor_names))

\* Lines 107-110: the first configured extractor of that name, as a list of at
\* most one element.
FirstNamed(feature_extractors, feature_name) ==
    LET found == SelectSeq(feature_extractors, LAMBDA e : e.name = feature_name)
    IN IF Len(found) = 0 THEN << >> ELSE <<found[1]>>

\* Lines 93-114: one iteration of the loop over selected_features.
ResolveFeatureName(feature_extractors, feature_name) ==
    LET extractor_names == Split(feature_name) IN
    IF Len(extractor_names) > 1
    THEN LET extractors == ExtractorsNamedIn(feature_extractors, extractor_names)
         IN IF Len(extractors) # Len(extractor_names)
            THEN [raised |-> "UnrecognizedFlag",
                  extractor |-> Extractor(feature_name, "none", "none")]
            ELSE NewConjoined(feature_name, extractors)
    ELSE LET found == FirstNamed(feature_extractors, feature_name)
         IN IF Len(found) = 0
            THEN [raised |-> "UnrecognizedFlag",
                  extractor |-> Extractor(feature_name, "none", "none")]
            ELSE [raised |-> "none", extractor |-> found[1]]

\* FeaturizedModel.__init__ (models.py 88-117): the loop from selected feature
\* i on, self.feature_extractors being acc so far.  An error ends the
\* construction: no model results.
RECURSIVE FeaturizedModelInit(_, _, _, _)
FeaturizedModelInit(feature_extractors, selected_features, i, acc) ==
    IF i > Len(selected_features)
    THEN [status |-> "constructed", feature_extractors |-> acc]
    ELSE LET r == ResolveFeatureName(feature_extractors, selected_features[i])
         IN IF r.raised # "none"
            THEN [status |-> r.raised, feature_extractors |-> << >>]
            ELSE FeaturizedModelInit(feature_extractors, selected_features,
                                     i + 1, Append(acc, r.extractor))

-----------------------------------------------------------------------------
(***************************************************************************)
(* The collaborators util.NameDictionary and                               *)
(* pipeline.feature_extractors.FeatureExtractor, as the specification      *)
(* describes them.                                                         *)
(***************************************************************************)
EmptyDictionary == << >>

\* NameDictionary.insert: a new name gets the next id, a known name keeps its
\* id.
DictInsert(dict, name) ==
    IF name \in DOMAIN dict THEN dict
    ELSE dict @@ (name :> Cardinality(DOMAIN dict))

RECURSIVE DictInsertAll(_, _)
DictInsertAll(dict, names) ==
    IF Len(names) = 0 THEN dict
    ELSE DictInsertAll(DictInsert(dict, Head(names)), Tail(names))

\* len(dictionary)
DictLen(dict) == Cardinality(DOMAIN dict)

\* The subfeature name of a categorical extractor for one value: 'name=value'.
CategoricalName(e, value) == e.name \o <<"=", ToString(value)>>

\* FeatureExtractor.extract_subfeature_names for a simple extractor: the
\* distinct names it produces over parts, in first-seen order; the extractor's
\* own name for a numeric feature.
RECURSIVE SimpleSubfeatureNames(_, _)
SimpleSubfeatureNames(e, parts) ==
    IF e.feature_type # "Categorical" THEN <<e.name>>
    ELSE IF Len(parts) = 0 THEN << >>
    ELSE LET before == SimpleSubfeatureNames(e, SubSeq(parts, 1, Len(parts) - 1))
             name == CategoricalName(e, ApplyFn(e.fn, parts[Len(parts)].instance))
         IN IF InList(name, before) THEN before ELSE Append(before, name)

\* FeatureExtractor.extract for a simple extractor: the items of the mapping
\* subfeature name -> value for one part.
SimpleExtract(e, part) ==
    IF e.feature_type = "Categorical"
    THEN <<CategoricalName(e, ApplyFn(e.fn, part.instance)), 1>>
    ELSE <<e.name, ApplyFn(e.fn, part.instance)>>

-----------------------------------------------------------------------------
\* itertools.product(*lists): the first list varies slowest.
RECURSIVE Product(_)
Product(lists) ==
    IF Len(lists) = 0 THEN << << >> >>
    ELSE LET rest == Product(Tail(lists))
             first == Head(lists)
             n == Len(rest)
         IN Stored([k \in 1..(Len(first) * n) |->
                <<first[((k - 1) \div n) + 1]>> \o rest[((k - 1) % n) + 1]])

\* Mutant: the components paired position by position (zip), not crossed.
ConjoinedSubfeatureNamesZipped(e, parts) ==
    LET subfeature_name_components ==
            Stored([i \in 1..Len(e.extractors) |->
                       SimpleSubfeatureNames(e.extractors[i], parts)])
        shortest == CHOOSE n \in {Len(subfeature_name_components[i]) :
                                     i \in 1..Len(e.extractors)} :
                        \A i \in 1..Len(e.extractors) :
                            n <= Len(subfeature_name_components[i])
    IN Stored([k \in 1..shortest |->
                  Join([i \in 1..Len(e.extractors) |->
                           subfeature_name_components[i][k]])])

\* ConjoinedFeatureExtractor.extract_subfeature_names (models.py 61-66)
ConjoinedSubfeatureNames(e, parts) ==
    LET subfeature_name_components ==
            Stored([i \in 1..Len(e.extractors) |->
                       SimpleSubfeatureNames(e.extractors[i], parts)])
        tuples == Product(subfeature_name_components)
    IN Stored([k \in 1..Len(tuples) |-> Join(tuples[k])])

\* extractor.extract_subfeature_names(parts) (models.py 132)
SubfeatureNames(e, parts) ==
    IF e.fn = "conjoined" THEN ConjoinedSubfeatureNames(e, parts)
    ELSE SimpleSubfeatureNames(e, parts)

\* ConjoinedFeatureExtractor.extract (models.py 72-74), as the item of the
\* mapping extract_all hands to _featurize.
ConjoinedExtract(e, part) ==
    <<Join([i \in 1..Len(e.extractors) |->
               SimpleExtract(e.extractors[i], part)[1]]), 1>>

\* extractor.extract_all(parts) (models.py 196): per part, the items
\* <<subfeature name, value>> of its mapping.
ExtractAll(e, parts) ==
    Stored([k \in 1..Len(parts) |->
               << IF e.fn = "conjoined" THEN ConjoinedExtract(e, parts[k])
                  ELSE SimpleExtract(e, parts[k]) >>])

-----------------------------------------------------------------------------
(***************************************************************************)
(* ClassifierModel._featurize (models.py 183-217).                         *)
(***************************************************************************)
\* Lines 187-188
RelevantParts(parts) == SelectSeq(parts, LAMBDA p : p.type = "part_type")

\* Lines 195-209 flattened: the writes <<part_index, name, value>> in the order
\* the three nested loops make them, extractor_calls counting the extract_all
\* calls.
RECURSIVE FeatureWrites(_, _, _)
FeatureWrites(feature_extractors, parts, k) ==
    IF k > Len(feature_extractors) THEN << >>
    ELSE LET feature_values_by_part == ExtractAll(feature_extractors[k], parts)
             OfPart(i) ==
                 Stored([n \in 1..Len(feature_values_by_part[i]) |->
                            <<i - 1, feature_values_by_part[i][n][1],
                              feature_values_by_part[i][n][2], k>>])
             RECURSIVE Flatten(_)
             Flatten(i) == IF i > Len(parts) THEN << >>
                           ELSE OfPart(i) \o Flatten(i + 1)
         IN Flatten(1) \o FeatureWrites(feature_extractors, parts, k + 1)

\* Mutant: the KeyError of an unknown subfeature name is not caught.
RECURSIVE ApplyWritesKeyError(_, _, _, _, _)
ApplyWritesKeyError(writes, n, dict, num_rows, entries) ==
    IF n > Len(writes)
    THEN [outcome |-> "return", entries |-> entries, extract_all_calls |-> 0]
    ELSE LET w == writes[n] IN
         IF w[3] = 0
         THEN ApplyWritesKeyError(writes, n + 1, dict, num_rows, entries)
         ELSE IF w[2] \notin DOMAIN dict
         THEN [outcome |-> "KeyError", entries |-> entries,
               extract_all_calls |-> w[4]]
         ELSE IF w[1] >= num_rows
         THEN [outcome |-> "IndexError", entries |-> entries,
               extract_all_calls |-> w[4]]
         ELSE ApplyWritesKeyError(writes, n + 1, dict, num_rows,
                  (<<w[1], dict[w[2]]>> :> w[3]) @@ entries)

\* Lines 197-209: the writes from the n-th on applied to the matrix entries
\* set so far.  A zero value is skipped, an unknown name is logged and
\* skipped, a row index outside the matrix is lil_matrix's IndexError.
RECURSIVE ApplyWrites(_, _, _, _, _)
ApplyWrites(writes, n, dict, num_rows, entries) ==
    IF n > Len(writes)
    THEN [outcome |-> "return", entries |-> entries, extract_all_calls |-> 0]
    ELSE LET w == writes[n] IN
         IF w[3] = 0
         THEN ApplyWrites(writes, n + 1, dict, num_rows, entries)
         ELSE IF w[2] \notin DOMAIN dict
         THEN ApplyWrites(writes, n + 1, dict, num_rows, entries)
         ELSE IF w[1] >= num_rows
         THEN [outcome |-> "IndexError", entries |-> entries,
               extract_all_calls |-> w[4]]
         ELSE ApplyWrites(writes, n + 1, dict, num_rows,
                  (<<w[1], dict[w[2]]>> :> w[3]) @@ entries)

\* ClassifierModel._featurize: the matrix (its shape and its non-zero
\* entries), the gold labels, and how the call ended.
_featurize(feature_extractors, dict, parts) ==
    LET relevant_parts == RelevantParts(parts)
        r == ApplyWrites(FeatureWrites(feature_extractors, parts, 1), 1, dict,
                         Len(relevant_parts), << >>)
    IN [outcome |-> r.outcome,
        shape |-> <<Len(relevant_parts), DictLen(dict)>>,
        entries |-> r.entries,
        labels |-> Stored([k \in 1..Len(relevant_parts) |->
                              relevant_parts[k].label]),
        extract_all_calls |->
            IF r.outcome = "return" THEN Len(feature_extractors)
            ELSE r.extract_all_calls]

\* classifier.predict(features): one label per row of the matrix; row k is
\* given the label k, so that a written label tells the row it came from.
Predict(features) == Stored([k \in 1..features.shape[1] |-> k])

\* Lines 177-178: zip(parts, labels) stops at the shorter of the two.
LabelParts(parts, labels) ==
    Stored([k \in 1..Len(parts) |->
               IF k <= Len(labels) THEN [parts[k] EXCEPT !.label = labels[k]]
               ELSE parts[k]])
\* Mutant: train keeps what earlier calls registered.
TrainResetKeep(dict) == dict

\* self.feature_name_dictionary.clear() (models.py 121)
TrainReset(dict) == EmptyDictionary

\* Mutant: the assertion of test() always passes.
DictionaryPopulatedAlways(dict) == DictLen(dict) >= 0

\* bool(self.feature_name_dictionary) (models.py 143): a NameDictionary is
\* true when it has a name.
DictionaryPopulated(dict) == DictLen(dict) > 0

-----------------------------------------------------------------------------
(***************************************************************************)
(* The models, names and parts explored.                                   *)
(***************************************************************************)
\* The longest selected_features list explored.
MaxSelected == 3

\* The longest parts list explored.
MaxParts == 2

identity == Extractor(<<"identity">>, "identity", "Categorical")
add1 == Extractor(<<"add1">>, "add1", "Categorical")
minus1 == Extractor(<<"minus1">>, "minus1", "Numerical")
\* A second extractor registered under the name 'identity'.
identity_again == Extractor(<<"identity">>, "add1", "Categorical")

\* The feature_extractors lists a model is configured with.
ConfiguredExtractors ==
    {<<identity, add1, minus1>>, <<identity, identity_again>>}

\* The names selected_features is made of: those of the tests
\* (models.py of tests, 94-120) and composites with a numeric or an unknown
\* component.
FeatureNames ==
    {<<"identity">>, <<"add1">>, <<"minus1">>, <<"bogus">>,
     <<"identity", ":", "add1">>, <<"add1", ":", "identity">>,
     <<"identity", ":", "minus1">>, <<"identity", ":", "bogus">>}

SelectedFeatures ==
    UNION {[1..n -> FeatureNames] : n \in 0..MaxSelected}

\* A part: an object of the model's part_type or of another type, the value
\* the extractor functions see, and its label.
Part(type, instance) == [type |-> type, instance |-> instance, label |-> 0]

PartObjects ==
    {Part("part_type", 1), Part("part_type", 2), Part("other_type", 3)}

PartLists == UNION {[1..n -> PartObjects] : n \in 0..MaxParts}

-----------------------------------------------------------------------------
(***************************************************************************)
(* StructuredModel.test (structured.py 37-45).  _make_parts and            *)
(* _score_parts are the hooks of a sequence model: an instance is a        *)
(* sequence of observed states, it has one part per position, and a state  *)
(* scores 2 at the positions where it was observed and 1 elsewhere.        *)
(***************************************************************************)
\* The longest instances list explored.
MaxInstances == 3

\* The states an instance's positions are observed in.
ObservedStates == {0, 1}

\* The longest instance explored.
InstanceLengths == {1, 2}

Instances == UNION {[0..(T - 1) -> ObservedStates] : T \in InstanceLengths}

InstanceLists == UNION {[1..n -> Instances] : n \in 0..MaxInstances}

\* self._make_parts(instance) (structured.py 38-39, 47-48)
_make_parts(instance) ==
    [t \in 1..Cardinality(DOMAIN instance) |->
        [instance |-> instance, position |-> t - 1]]

\* self._score_parts(instance, instance_parts) (structured.py 42): the
\* SequenceScores (structured.py 133-136) of the parts.
_score_parts(instance, instance_parts) ==
    [node_scores |->
        [s \in 0..1 |->
            [t \in 0..(Len(instance_parts) - 1) |->
                IF instance_parts[t + 1].instance[instance_parts[t + 1].position] = s
                THEN 2 ELSE 1]],
     transition_weights |-> [ndim |-> 2, w |-> TransitionMatrix(2, 1, 1, 1)]]

\* Mutant: every instance is paired with the parts of the first one.
ZipInstancePartsFirst(instances, parts_by_instance, k) ==
    <<instances[k], parts_by_instance[1]>>

\* zip(instances, parts_by_instance) (structured.py 41): the k-th pair.
ZipInstanceParts(instances, parts_by_instance, k) ==
    <<instances[k], parts_by_instance[k]>>

\* One record of structured_calls.
StructuredCall(method, instance, parts, scores) ==
    [method |-> method, instance |-> instance, parts |-> parts,
     scores |-> scores]

-----------------------------------------------------------------------------
(***************************************************************************)
(* ClassBalancingModelWrapper.rebalance (models.py 231-284).               *)
(*                                                                         *)
(* The arrays of this function are sequences: row i of a numpy array is    *)
(* element i + 1.  The rows of data are told apart by their values, as in  *)
(* the tests: the value of a row is its index in the input.  ratio is a    *)
(* number of tenths, or infinity; for the ratios and counts explored the   *)
(* double (ratio - 1) * current_count truncates to the same integer as the *)
(* exact product.                                                          *)
(***************************************************************************)
\* The most rows of an input explored.
MaxRows == 7

\* The class labels explored.
ClassLabels == {0, 1, 2}

\* The finite ratios explored, in tenths: 0.5, 1.0, 1.7, 2.0, 2.2, 3.0.
RatioTenths == {5, 10, 17, 20, 22, 30}

Infinity == [inf |-> TRUE, tenths |-> 0]
Ratio(tenths) == [inf |-> FALSE, tenths |-> tenths]
Ratios == {Infinity} \cup {Ratio(t) : t \in RatioTenths}

LabelVectors == UNION {[1..n -> ClassLabels] : n \in 0..MaxRows}

\* The data matrix of n rows.
DataOf(n) == [i \in 1..n |-> i - 1]

\* The elements of a set of integers in increasing order.
RECURSIVE Sorted(_)
Sorted(set) ==
    IF set = {} THEN << >>
    ELSE LET least == CHOOSE x \in set : \A y \in set : x <= y
         IN <<least>> \o Sorted(set \ {least})

\* np.unique(labels, return_inverse=True, return_counts=True)
\* (models.py 242-243); label_indices holds positions in label_set from 0.
NpUnique(labels) ==
    LET label_set == Sorted({labels[i] : i \in 1..Len(labels)})
    IN [label_set |-> label_set,
        label_indices |->
            Stored([i \in 1..Len(labels) |->
                       (CHOOSE j \in 1..Len(label_set) :
                            label_set[j] = labels[i]) - 1]),
        label_counts |->
            Stored([j \in 1..Len(label_set) |->
                       Cardinality({i \in 1..Len(labels) :
                                       labels[i] = label_set[j]})])]

\* Mutant: label_counts.min() in its place.
MinCount(label_counts) ==
    CHOOSE m \in {label_counts[j] : j \in 1..Len(label_counts)} :
        \A j \in 1..Len(label_counts) : label_counts[j] >= m

\* label_counts.max() (models.py 245), of a non-empty array.
MaxCount(label_counts) ==
    CHOOSE m \in {label_counts[j] : j \in 1..Len(label_counts)} :
        \A j \in 1..Len(label_counts) : label_counts[j] <= m

\* int(x) of a number of tenths: truncation towards zero.
IntOfTenths(tenths) ==
    IF tenths >= 0 THEN tenths \div 10 ELSE -((-tenths) \div 10)

\* Mutant: the ratio bounds the rows added by ratio * current_count.
CountToAddNoAdjust(max_count, current_count, ratio) ==
    IF ratio.inf THEN max_count - current_count
    ELSE IF 10 * (max_count - current_count) <= ratio.tenths * current_count
    THEN max_count - current_count
    ELSE IntOfTenths(ratio.tenths * current_count)

\* int(min(max_count - current_count, (ratio - 1) * current_count))
\* (models.py 248), for ratio > 1.0.
CountToAdd(max_count, current_count, ratio) ==
    IF ratio.inf THEN max_count - current_count
    ELSE IF 10 * (max_count - current_count)
               <= (ratio.tenths - 10) * current_count
    THEN max_count - current_count
    ELSE IntOfTenths((ratio.tenths - 10) * current_count)

\* np.sum (models.py 250)
RECURSIVE SeqSum(_)
SeqSum(seq) == IF Len(seq) = 0 THEN 0 ELSE Head(seq) + SeqSum(Tail(seq))

\* np.where(label_indices == j)[0] (models.py 263): the rows of class j, in
\* order, numbered from 0.
LabelRowIndices(label_indices, j) ==
    LET RECURSIVE From(_)
        From(i) == IF i > Len(label_indices) THEN << >>
                   ELSE IF label_indices[i] = j THEN <<i - 1>> \o From(i + 1)
                   ELSE From(i + 1)
    IN From(1)

\* np.tile(array, (repetitions,)) (models.py 272)
RECURSIVE NpTile(_, _)
NpTile(array, repetitions) ==
    IF repetitions <= 0 THEN << >>
    ELSE array \o NpTile(array, repetitions - 1)

\* Mutant: the rows that the full repetitions leave over are not added.
DeterministicIndicesNoPrefix(label_row_indices, count_to_add) ==
    NpTile(label_row_indices, count_to_add \div Len(label_row_indices))

\* The deterministic branch (models.py 268-276).
DeterministicIndices(label_row_indices, count_to_add) ==
    LET full_repetitions == count_to_add \div Len(label_row_indices)
        indices == NpTile(label_row_indices, full_repetitions)
        still_needed == count_to_add - Len(indices)
    IN IF still_needed # 0
       THEN indices \o SubSeq(label_row_indices, 1, still_needed)
       ELSE indices

\* np.random.choice(label_row_indices, count) (models.py 265-266): the
\* samples it can return.
RandomChoices(label_row_indices, count) ==
    [1..count -> {label_row_indices[i] : i \in 1..Len(label_row_indices)}]

\* array[indices] (models.py 280-281)
Take(array, indices) == [k \in 1..Len(indices) |-> array[indices[k] + 1]]

\* Mutant: the added rows come before the input's.
StackAddedFirst(array, added) == added \o array

\* vstack((data, rebalanced_data)) and np.concatenate((labels,
\* rebalanced_labels)) (models.py 282-283)
Stack(array, added) == array \o added

\* Mutant: a ratio of at most 1.0 is treated as any other.
UnchangedForNever(ratio) == FALSE

\* ratio <= 1.0 (models.py 238)
UnchangedFor(ratio) == ~ratio.inf /\ ratio.tenths <= 10

\* Mutant: the classes are filled to one row less than the majority's.
CountsToAddShort(label_counts, ratio) ==
    [j \in 1..Len(label_counts) |->
        IF label_counts[j] < MaxCount(label_counts) - 1
        THEN MaxCount(label_counts) - 1 - label_counts[j] ELSE 0]

\* counts_to_add (models.py 245-249)
CountsToAdd(label_counts, ratio) ==
    LET max_count == MaxCount(label_counts)
    IN Stored([j \in 1..Len(label_counts) |->
                  CountToAdd(max_count, label_counts[j], ratio)])

\* The rows added for the classes from the j-th on (models.py 262-281), in
\* the order of the slices: indices_by_label[j] are the rows chosen for the
\* j-th class.
RECURSIVE AddedIndices(_, _)
AddedIndices(indices_by_label, j) ==
    IF j > Len(indices_by_label) THEN << >>
    ELSE indices_by_label[j] \o AddedIndices(indices_by_label, j + 1)

\* rebalance(data, labels, ratio), sampled being what np.random.choice
\* returns for each class when FLAGS.rebalance_stochastically is set.
rebalance(data, labels, ratio, rebalance_stochastically, sampled) ==
    IF UnchangedFor(ratio)
    THEN [outcome |-> "return", data |-> data, labels |-> labels,
          input_returned |-> TRUE, counts_to_add |-> << >>,
          indices_by_label |-> << >>]
    ELSE IF Len(labels) = 0
    THEN [outcome |-> "ValueError", data |-> << >>, labels |-> << >>,
          input_returned |-> FALSE, counts_to_add |-> << >>,
          indices_by_label |-> << >>]
    ELSE
    LET unique == NpUnique(labels)
        counts_to_add == CountsToAdd(unique.label_counts, ratio)
        rows_to_add == SeqSum(counts_to_add)
        indices_by_label ==
            Stored([j \in 1..Len(unique.label_set) |->
                       IF rebalance_stochastically THEN sampled[j]
                       ELSE DeterministicIndices(
                                LabelRowIndices(unique.label_indices, j - 1),
                                counts_to_add[j])])
        indices == AddedIndices(indices_by_label, 1)
    IN IF rows_to_add = 0
       THEN [outcome |-> "return", data |-> data, labels |-> labels,
             input_returned |-> TRUE, counts_to_add |-> counts_to_add,
             indices_by_label |-> << >>]
       ELSE IF rows_to_add < 0
       THEN \* lil_matrix refuses a negative number of rows (models.py 257)
            [outcome |-> "ValueError", data |-> << >>, labels |-> << >>,
             input_returned |-> FALSE, counts_to_add |-> counts_to_add,
             indices_by_label |-> << >>]
       ELSE [outcome |-> "return",
             data |-> Stack(data, Take(data, indices)),
             labels |-> Stack(labels, Take(labels, indices)),
             input_returned |-> FALSE, counts_to_add |-> counts_to_add,
             indices_by_label |-> indices_by_label]

\* What np.random.choice can return for each class of labels, for the counts
\* the ratio gives; nothing is sampled in deterministic mode or when the
\* function returns before the loop.
Samples(labels, ratio, rebalance_stochastically) ==
    IF ~rebalance_stochastically \/ UnchangedFor(ratio) \/ Len(labels) = 0
    THEN {<< >>}
    ELSE LET unique == NpUnique(labels)
             counts_to_add == CountsToAdd(unique.label_counts, ratio)
         IN IF SeqSum(counts_to_add) = 0 THEN {<< >>}
            ELSE {s \in [1..Len(unique.label_set) ->
                            UNION {RandomChoices(
                                      LabelRowIndices(unique.label_indices, j - 1),
                                      counts_to_add[j]) :
                                   j \in 1..Len(unique.label_set)}] :
                     \A j \in 1..Len(unique.label_set) :
                        s[j] \in RandomChoices(
                                    LabelRowIndices(unique.label_indices, j - 1),
                                    counts_to_add[j])}

-----------------------------------------------------------------------------
(***************************************************************************)
(* CRFModel (pipeline/models.py).  A part is a sequence of observations    *)
(* with its labels; the subclass hooks _sequences_for_part and _label_part,*)
(* the feature extractors and the tagger may raise for a part, which the   *)
(* part records in its field fails.  The pycrfsuite trainer and tagger are *)
(* an external resource: the model file at model_file_path and the taggers *)
(* that are open are part of the state.                                    *)
(***************************************************************************)
\* The largest number of parts in one train or test call.
MaxCRFParts == 2

\* The most taggers left open at a time.
MaxOpenTaggers == 2

\* The observation sequences of the parts.
ObservationSequences == {<<"a">>, <<"b", "a">>}

\* The step of the loop body that raises for a part, if any.
FailingSteps == {"none", "_sequences_for_part", "extract", "tag", "_label_part"}

CRFParts == [observations : ObservationSequences, fails : FailingSteps]
CRFPartLists == UNION {[1..n -> CRFParts] : n \in 0..MaxCRFParts}

\* The label of an observation in the training data.
GoldLabel(observation) == IF observation = "a" THEN "O" ELSE "B"

\* _sequences_for_part(part, is_train): the observation sequence and the
\* labels, None at test time.
_sequences_for_part(part, is_train) ==
    [observation_sequence |-> part.observations,
     labels |-> IF is_train
                THEN [i \in 1..Len(part.observations) |->
                          GoldLabel(part.observations[i])]
                ELSE "None"]

\* The feature extractors handed to the constructor, by name: the
\* observation itself, and the observation after it in the sequence.
CRFFeatureExtractors == <<"word", "next">>

\* The selected_features handed to the constructor.
CRFSelectedFeatures == {{"word"}, {"word", "next"}}

\* CRFModel.__init__: the extractors whose name is selected, no model_info.
CRFModelInit(feature_extractors, selected_features, save_model_info) ==
    [model_file |-> "absent",
     feature_extractors |->
         SelectSeq(feature_extractors,
                   LAMBDA extractor : extractor \in selected_features),
     save_model_info |-> save_model_info, model_info |-> "None",
     open_taggers |-> 0, last_train |-> "none"]

\* self.ObservationWithContext(observation, sequence, index, part);
\* index counts from 0.
ObservationWithContext(observation, sequence, index, part) ==
    [observation |-> observation, sequence |-> sequence, index |-> index,
     part |-> part]

\* feature_extractor.extract(extractor_arg): a mapping of feature names to
\* values.
CRFExtract(feature_extractor, extractor_arg) ==
    IF feature_extractor = "word"
    THEN ("word" :> extractor_arg.observation)
    ELSE ("next" :> IF extractor_arg.index + 2 <= Len(extractor_arg.sequence)
                    THEN extractor_arg.sequence[extractor_arg.index + 2]
                    ELSE "END")

\* dict.update: the entries of update replace those of the dictionary.
DictUpdate(feature_values, update) == update @@ feature_values

\* Every observation is given the features of the first one.
RECURSIVE ObservationFeaturesOfFirst(_, _, _, _, _)
ObservationFeaturesOfFirst(feature_extractors, observation_sequence, i, part, e) ==
    IF e = 0 THEN << >>
    ELSE DictUpdate(
            ObservationFeaturesOfFirst(feature_extractors,
                                       observation_sequence, i, part, e - 1),
            CRFExtract(feature_extractors[e],
                       ObservationWithContext(observation_sequence[1],
                                              observation_sequence, 0, part)))

\* The body of the loop over the observations: feature_values of
\* observation i (from 0) after the first e extractors have updated it.
RECURSIVE ObservationFeatures(_, _, _, _, _)
ObservationFeatures(feature_extractors, observation_sequence, i, part, e) ==
    IF e = 0 THEN << >>
    ELSE DictUpdate(
            ObservationFeatures(feature_extractors, observation_sequence,
                                i, part, e - 1),
            CRFExtract(feature_extractors[e],
                       ObservationWithContext(observation_sequence[i + 1],
                                              observation_sequence, i, part)))

\* CRFModel.__featurize_observation_sequence: one feature mapping per
\* observation, in order.
__featurize_observation_sequence(feature_extractors, observation_sequence, part) ==
    [k \in 1..Len(observation_sequence) |->
        ObservationFeatures(feature_extractors, observation_sequence,
                            k - 1, part, Len(feature_extractors))]

\* tagger.tag(observation_features) with the model of the file: one label
\* per position.
Tag(observation_features) ==
    [k \in 1..Len(observation_features) |->
        IF observation_features[k]["word"] = "b" THEN "B"
        ELSE IF "next" \in DOMAIN observation_features[k]
                /\ observation_features[k]["next"] = "a" THEN "I"
        ELSE "O"]

\* A call CRFModel makes on the tagger, the trainer or one of its hooks.
CRFEvent(method, part, features, labels) ==
    [method |-> method, part |-> part, features |-> features,
     labels |-> labels]

\* The calls of one pass of the loop of test on part number next, and
\* whether the pass raises.
TestPartCalls(feature_extractors, parts, next) ==
    LET part == parts[next]
        sequences == _sequences_for_part(part, FALSE)
        observation_features ==
            __featurize_observation_sequence(
                feature_extractors, sequences.observation_sequence, part)
        crf_labels == Tag(observation_features)
        c1 == <<CRFEvent("_sequences_for_part", next, << >>, << >>)>>
        c2 == c1 \o <<CRFEvent("tag", next, observation_features, crf_labels)>>
        c3 == c2 \o <<CRFEvent("_label_part", next, << >>,
                               crf_labels)>>
    IN CASE part.fails = "_sequences_for_part" -> [raises |-> TRUE, calls |-> c1]
         [] part.fails = "extract" -> [raises |-> TRUE, calls |-> c1]
         [] part.fails = "tag" -> [raises |-> TRUE, calls |-> c2]
         [] part.fails = "_label_part" -> [raises |-> TRUE, calls |-> c3]
         [] OTHER -> [raises |-> FALSE, calls |-> c3]

\* The calls of one pass of the loop of train on part number next.
TrainPartCalls(feature_extractors, parts, next) ==
    LET part == parts[next]
        sequences == _sequences_for_part(part, TRUE)
        observation_features ==
            __featurize_observation_sequence(
                feature_extractors, sequences.observation_sequence, part)
        c1 == <<CRFEvent("_sequences_for_part", next, << >>, << >>)>>
        c2 == c1 \o <<CRFEvent("append", next, observation_features,
                               sequences.labels)>>
    IN CASE part.fails = "_sequences_for_part" -> [raises |-> TRUE, calls |-> c1]
         [] part.fails = "extract" -> [raises |-> TRUE, calls |-> c1]
         [] OTHER -> [raises |-> FALSE, calls |-> c2]

-----------------------------------------------------------------------------
NoCall == [op |-> "none", node_scores |-> << >>, transition_weights |-> << >>,
           return_best_path |-> FALSE]
NoResult == [outcome |-> "none", score |-> 0, path |-> NoPath,
             columns_computed |-> 0, predecessors_read |-> {}]
IdleDecoder == [possible_states |-> << >>, semiring |-> "MAX_PLUS"]

NoFeatures == [shape |-> <<0, 0>>, entries |-> << >>]
Unconstructed == [status |-> "unconstructed", feature_extractors |-> << >>]
NoModelCall ==
    [op |-> "none", feature_extractors |-> << >>, selected_features |-> << >>,
     parts |-> << >>, pc |-> "done", next_extractor |-> 0, outcome |-> "none",
     reached |-> FALSE, features |-> NoFeatures]

NoStructuredCall ==
    [op |-> "none", instances |-> << >>, pc |-> "done",
     parts_by_instance |-> << >>, outputs_by_instance |-> << >>,
     outcome |-> "none"]
IdleStructured ==
    /\ stest = NoStructuredCall
    /\ structured_calls = << >>

NoRebalanceCall ==
    [op |-> "none", data |-> << >>, labels |-> << >>, ratio |-> Infinity,
     rebalance_stochastically |-> FALSE]
NoRebalanceResult ==
    [outcome |-> "none", data |-> << >>, labels |-> << >>,
     input_returned |-> FALSE, counts_to_add |-> << >>,
     indices_by_label |-> << >>]
IdleRebalance ==
    /\ rcall = NoRebalanceCall
    /\ rresult = NoRebalanceResult

\* No CRFModel constructed, no call made.
NoCRFModel ==
    [model_file |-> "absent", feature_extractors |-> << >>,
     save_model_info |-> FALSE, model_info |-> "None", open_taggers |-> 0,
     last_train |-> "none"]
NoCRFCall ==
    [op |-> "none", parts |-> << >>, pc |-> "done", next |-> 0,
     outcome |-> "none"]
IdleCRF ==
    /\ crf = NoCRFModel
    /\ crf_call = NoCRFCall
    /\ crf_calls = << >>

\* ViterbiDecoder.__init__ (structured.py 155-157)
InitViterbi ==
    /\ decoder \in [possible_states : {<< >>, Labels}, semiring : Semirings]
    /\ vcall = NoCall
    /\ vresult = NoResult
    /\ fm = Unconstructed
    /\ feature_name_dictionary = EmptyDictionary
    /\ fm_call = NoModelCall
    /\ extractor_calls = << >>
    /\ IdleStructured
    /\ IdleRebalance
    /\ IdleCRF

CallRunViterbi ==
    /\ vcall.op = "none"
    /\ \E S \in StateCounts, T \in 1..MaxPositions, rbp \in BOOLEAN :
         \E ns \in NodeScoreArrays(S, T), tw \in TransitionWeights(S, T) :
            /\ vcall' = [op |-> "run_viterbi", node_scores |-> ns,
                         transition_weights |-> tw, return_best_path |-> rbp]
            /\ vresult' = run_viterbi(decoder, ns, tw, rbp)
    /\ UNCHANGED decoder
    /\ UNCHANGED <<fm_vars, structured_vars, rebalance_vars, crf_vars>>

CallDecode ==
    /\ vcall.op = "none"
    /\ \E S \in StateCounts, T \in 1..MaxPositions :
         \E ns \in NodeScoreArrays(S, T), tw \in TransitionWeights(S, T) :
            /\ vcall' = [op |-> "decode", node_scores |-> ns,
                         transition_weights |-> tw, return_best_path |-> TRUE]
            /\ vresult' = decode(decoder,
                                 [node_scores |-> ns, transition_weights |-> tw])
    /\ UNCHANGED decoder
    /\ UNCHANGED <<fm_vars, structured_vars, rebalance_vars, crf_vars>>

NextViterbi == CallRunViterbi \/ CallDecode

SpecViterbi == InitViterbi /\ [][NextViterbi]_vars

-----------------------------------------------------------------------------
(***************************************************************************)
(* A ClassifierModel: constructed once, then trained and tested any number *)
(* of times, one call at a time.                                           *)
(***************************************************************************)
InitModel ==
    /\ fm = Unconstructed
    /\ feature_name_dictionary = EmptyDictionary
    /\ fm_call = NoModelCall
    /\ extractor_calls = << >>
    /\ decoder = IdleDecoder
    /\ vcall = NoCall
    /\ vresult = NoResult
    /\ IdleStructured
    /\ IdleRebalance
    /\ IdleCRF

\* ClassifierModel.__init__ (models.py 156-164) over FeaturizedModel.__init__
\* (models.py 76-117)
Construct ==
    /\ fm.status = "unconstructed"
    /\ \E feature_extractors \in ConfiguredExtractors,
          selected_features \in SelectedFeatures :
         /\ fm' = FeaturizedModelInit(feature_extractors, selected_features,
                                      1, << >>)
         /\ fm_call' = [NoModelCall EXCEPT
                           !.op = "__init__",
                           !.feature_extractors = feature_extractors,
                           !.selected_features = selected_features,
                           !.outcome = IF fm'.status = "constructed"
                                       THEN "return" ELSE fm'.status]
    /\ feature_name_dictionary' = EmptyDictionary
    /\ extractor_calls' = << >>
    /\ UNCHANGED <<viterbi_vars, structured_vars, rebalance_vars, crf_vars>>

\* FeaturizedModel.train (models.py 119-127): the reset before the loop.
TrainBegin ==
    /\ fm.status = "constructed"
    /\ fm_call.pc = "done"
    /\ \E parts \in PartLists :
         fm_call' = [NoModelCall EXCEPT !.op = "train", !.parts = parts,
                                        !.pc = "register",
                                        !.next_extractor = 1]
    /\ feature_name_dictionary' = TrainReset(feature_name_dictionary)
    /\ extractor_calls' = << >>
    /\ UNCHANGED <<fm, decoder, vcall, vresult, structured_vars,
                    rebalance_vars, crf_vars>>

\* FeaturizedModel.train (models.py 129-136): one iteration of the loop over
\* self.feature_extractors.
TrainRegister ==
    /\ fm_call.op = "train"
    /\ fm_call.pc = "register"
    /\ fm_call.next_extractor <= Len(fm.feature_extractors)
    /\ LET k == fm_call.next_extractor
           extractor == fm.feature_extractors[k]
           subfeature_names == SubfeatureNames(extractor, fm_call.parts)
       IN /\ extractor_calls' = extractor_calls \o
                <<<<"train", k>>, <<"extract_subfeature_names", k>>>>
          /\ feature_name_dictionary' =
                DictInsertAll(feature_name_dictionary, subfeature_names)
          /\ fm_call' = [fm_call EXCEPT !.next_extractor = k + 1]
    /\ UNCHANGED <<fm, decoder, vcall, vresult, structured_vars,
                    rebalance_vars, crf_vars>>

\* FeaturizedModel.train (models.py 138-140) into
\* ClassifierModel._featurized_train (models.py 166-170)
TrainFeaturized ==
    /\ fm_call.op = "train"
    /\ fm_call.pc = "register"
    /\ fm_call.next_extractor > Len(fm.feature_extractors)
    /\ LET f == _featurize(fm.feature_extractors, feature_name_dictionary,
                           fm_call.parts)
       IN /\ fm_call' = [fm_call EXCEPT
                            !.pc = "done", !.reached = TRUE,
                            !.outcome = f.outcome,
                            !.features = [shape |-> f.shape,
                                          entries |-> f.entries]]
          /\ extractor_calls' = extractor_calls \o <<<<"_featurized_train", 0>>>>
                \o [k \in 1..f.extract_all_calls |-> <<"extract_all", k>>]
    /\ UNCHANGED <<fm, feature_name_dictionary, decoder, vcall, vresult,
                    structured_vars, rebalance_vars, crf_vars>>

\* FeaturizedModel.test (models.py 142-146) into
\* ClassifierModel._featurized_test (models.py 172-178)
Test ==
    /\ fm.status = "constructed"
    /\ fm_call.pc = "done"
    /\ \E parts \in PartLists :
         IF ~DictionaryPopulated(feature_name_dictionary)
         THEN /\ fm_call' = [NoModelCall EXCEPT !.op = "test", !.parts = parts,
                                                !.outcome = "AssertionError"]
              /\ extractor_calls' = << >>
         ELSE LET f == _featurize(fm.feature_extractors,
                                  feature_name_dictionary, parts)
                  labels == Predict(f)
              IN /\ fm_call' = [NoModelCall EXCEPT
                                   !.op = "test",
                                   !.parts = IF f.outcome = "return"
                                             THEN LabelParts(parts, labels)
                                             ELSE parts,
                                   !.reached = TRUE,
                                   !.outcome = f.outcome,
                                   !.features = [shape |-> f.shape,
                                                 entries |-> f.entries]]
                 /\ extractor_calls' = <<<<"_featurized_test", 0>>>>
                       \o [k \in 1..f.extract_all_calls |-> <<"extract_all", k>>]
    /\ UNCHANGED <<fm, feature_name_dictionary, decoder, vcall, vresult,
                    structured_vars, rebalance_vars, crf_vars>>

NextModel ==
    Construct \/ TrainBegin \/ TrainRegister \/ TrainFeaturized \/ Test

SpecModel == InitModel /\ [][NextModel]_vars

-----------------------------------------------------------------------------
(***************************************************************************)
(* A StructuredModel with a ViterbiDecoder, tested any number of times.    *)
(***************************************************************************)
\* StructuredModel.__init__ (structured.py 22-24)
InitStructured ==
    /\ decoder \in [possible_states : {<< >>, Labels}, semiring : Semirings]
    /\ vcall = NoCall
    /\ vresult = NoResult
    /\ fm = Unconstructed
    /\ feature_name_dictionary = EmptyDictionary
    /\ fm_call = NoModelCall
    /\ extractor_calls = << >>
    /\ IdleStructured
    /\ IdleRebalance
    /\ IdleCRF

\* StructuredModel.test (structured.py 37): the call.
StructuredTestBegin ==
    /\ stest.pc = "done"
    /\ \E instances \in InstanceLists :
         stest' = [NoStructuredCall EXCEPT !.op = "test",
                                           !.instances = instances,
                                           !.pc = "running"]
    /\ structured_calls' = << >>
    /\ UNCHANGED <<viterbi_vars, fm_vars, rebalance_vars, crf_vars>>

\* StructuredModel.test (structured.py 38-39): one element of the list
\* comprehension.
StructuredMakeParts ==
    /\ stest.pc = "running"
    /\ Len(stest.parts_by_instance) < Len(stest.instances)
    /\ LET instance == stest.instances[Len(stest.parts_by_instance) + 1]
       IN /\ stest' = [stest EXCEPT !.parts_by_instance =
                                       Append(@, _make_parts(instance))]
          /\ structured_calls' =
                Append(structured_calls,
                       StructuredCall("_make_parts", instance, << >>, << >>))
    /\ UNCHANGED <<viterbi_vars, fm_vars, rebalance_vars, crf_vars>>

\* StructuredModel.test (structured.py 41-44): one iteration of the loop.
StructuredScoreAndDecode ==
    /\ stest.pc = "running"
    /\ Len(stest.parts_by_instance) = Len(stest.instances)
    /\ Len(stest.outputs_by_instance) < Len(stest.instances)
    /\ LET pair == ZipInstanceParts(stest.instances, stest.parts_by_instance,
                                    Len(stest.outputs_by_instance) + 1)
           instance == pair[1]
           instance_parts == pair[2]
           part_scores == _score_parts(instance, instance_parts)
           decoded == decode(decoder, part_scores)
       IN /\ structured_calls' = structured_calls \o
                <<StructuredCall("_score_parts", instance, instance_parts, << >>),
                  StructuredCall("decode", instance, instance_parts,
                                 part_scores)>>
          /\ IF decoded.outcome = "return"
             THEN stest' = [stest EXCEPT !.outputs_by_instance =
                                            Append(@, decoded.path)]
             ELSE stest' = [stest EXCEPT !.pc = "done",
                                         !.outcome = decoded.outcome]
    /\ UNCHANGED <<viterbi_vars, fm_vars, rebalance_vars, crf_vars>>

\* StructuredModel.test (structured.py 45): return outputs_by_instance.
StructuredTestReturn ==
    /\ stest.pc = "running"
    /\ Len(stest.parts_by_instance) = Len(stest.instances)
    /\ Len(stest.outputs_by_instance) = Len(stest.instances)
    /\ stest' = [stest EXCEPT !.pc = "done", !.outcome = "return"]
    /\ UNCHANGED <<structured_calls, viterbi_vars, fm_vars, rebalance_vars,
                   crf_vars>>

NextStructured ==
    \/ StructuredTestBegin
    \/ StructuredMakeParts
    \/ StructuredScoreAndDecode
    \/ StructuredTestReturn

SpecStructured == InitStructured /\ [][NextStructured]_vars

-----------------------------------------------------------------------------
(***************************************************************************)
(* One call of ClassBalancingModelWrapper.rebalance.                       *)
(***************************************************************************)
InitRebalance ==
    /\ decoder = IdleDecoder
    /\ vcall = NoCall
    /\ vresult = NoResult
    /\ fm = Unconstructed
    /\ feature_name_dictionary = EmptyDictionary
    /\ fm_call = NoModelCall
    /\ extractor_calls = << >>
    /\ IdleStructured
    /\ IdleRebalance
    /\ IdleCRF

\* rebalance(data, labels, ratio) (models.py 231-284), with the flag
\* rebalance_stochastically (models.py 17-19) as it is set.
CallRebalance ==
    /\ rcall.op = "none"
    /\ \E labels \in LabelVectors, ratio \in Ratios,
          rebalance_stochastically \in BOOLEAN :
         \E sampled \in Samples(labels, ratio, rebalance_stochastically) :
            /\ rcall' = [op |-> "rebalance", data |-> DataOf(Len(labels)),
                         labels |-> labels, ratio |-> ratio,
                         rebalance_stochastically |-> rebalance_stochastically]
            /\ rresult' = rebalance(DataOf(Len(labels)), labels, ratio,
                                    rebalance_stochastically, sampled)
    /\ UNCHANGED <<viterbi_vars, fm_vars, structured_vars, crf_vars>>

NextRebalance == CallRebalance

SpecRebalance == InitRebalance /\ [][NextRebalance]_vars

-----------------------------------------------------------------------------
(***************************************************************************)
(* CRFModel.train and CRFModel.test, step by step.  crf_calls holds the    *)
(* calls the running (or last) train or test has made; crf.open_taggers    *)
(* counts the taggers that were opened and not closed, and crf.last_train  *)
(* records how the latest train ended.                                     *)
(***************************************************************************)
\* CRFModel.__init__ (models.py 315-325); no file at model_file_path yet.
InitCRF ==
    /\ \E selected_features \in CRFSelectedFeatures, save_model_info \in BOOLEAN :
          crf = CRFModelInit(CRFFeatureExtractors, selected_features,
                             save_model_info)
    /\ crf_call = NoCRFCall
    /\ crf_calls = << >>
    /\ decoder = IdleDecoder
    /\ vcall = NoCall
    /\ vresult = NoResult
    /\ fm = Unconstructed
    /\ feature_name_dictionary = EmptyDictionary
    /\ fm_call = NoModelCall
    /\ extractor_calls = << >>
    /\ IdleStructured
    /\ IdleRebalance

\* test (models.py 383-384): a tagger is made and opens the file at
\* model_file_path; open raises IOError when there is no such file.
CRFTestOpen ==
    /\ crf_call.pc = "done"
    /\ crf.open_taggers < MaxOpenTaggers
    /\ \E parts \in CRFPartLists :
          IF crf.model_file = "absent"
          THEN /\ crf_call' = [op |-> "test", parts |-> parts, pc |-> "done",
                               next |-> 1, outcome |-> "IOError"]
               /\ crf_calls' = << >>
               /\ crf' = crf
          ELSE /\ crf_call' = [op |-> "test", parts |-> parts, pc |-> "loop",
                               next |-> 1, outcome |-> "none"]
               /\ crf_calls' = <<CRFEvent("open", 0, << >>, << >>)>>
               /\ crf' = [crf EXCEPT !.open_taggers = @ + 1]
    /\ UNCHANGED <<viterbi_vars, fm_vars, structured_vars, rebalance_vars>>

\* test (models.py 385-390): one pass of the loop; a step that raises ends
\* the call there.
CRFTestPart ==
    /\ crf_call.op = "test"
    /\ crf_call.pc = "loop"
    /\ crf_call.next <= Len(crf_call.parts)
    /\ LET pass == TestPartCalls(crf.feature_extractors, crf_call.parts,
                                 crf_call.next)
       IN /\ crf_calls' = crf_calls \o pass.calls
          /\ crf_call' =
                IF pass.raises
                THEN [crf_call EXCEPT !.pc = "done", !.outcome = "raised"]
                ELSE [crf_call EXCEPT !.next = @ + 1]
    /\ UNCHANGED <<crf, viterbi_vars, fm_vars, structured_vars, rebalance_vars>>

\* test (models.py 391): after the last part the tagger is closed.
CRFTestClose ==
    /\ crf_call.op = "test"
    /\ crf_call.pc = "loop"
    /\ crf_call.next > Len(crf_call.parts)
    /\ crf_calls' = crf_calls \o <<CRFEvent("close", 0, << >>, << >>)>>
    /\ crf' = [crf EXCEPT !.open_taggers = @ - 1]
    /\ crf_call' = [crf_call EXCEPT !.pc = "done", !.outcome = "return"]
    /\ UNCHANGED <<viterbi_vars, fm_vars, structured_vars, rebalance_vars>>

\* train (models.py 358-362): the trainer is made and configured, the error
\* handler installed.
CRFTrainBegin ==
    /\ crf_call.pc = "done"
    /\ \E parts \in CRFPartLists :
          crf_call' = [op |-> "train", parts |-> parts, pc |-> "loop",
                       next |-> 1, outcome |-> "none"]
    /\ crf_calls' = << >>
    /\ UNCHANGED <<crf, viterbi_vars, fm_vars, structured_vars, rebalance_vars>>

\* train (models.py 364-368): one pass of the loop.
CRFTrainAppend ==
    /\ crf_call.op = "train"
    /\ crf_call.pc = "loop"
    /\ crf_call.next <= Len(crf_call.parts)
    /\ LET pass == TrainPartCalls(crf.feature_extractors, crf_call.parts,
                                  crf_call.next)
       IN /\ crf_calls' = crf_calls \o pass.calls
          /\ crf_call' =
                IF pass.raises
                THEN [crf_call EXCEPT !.pc = "done", !.outcome = "raised"]
                ELSE [crf_call EXCEPT !.next = @ + 1]
          /\ crf' = IF pass.raises THEN [crf EXCEPT !.last_train = "raised"]
                    ELSE crf
    /\ UNCHANGED <<viterbi_vars, fm_vars, structured_vars, rebalance_vars>>

\* train (models.py 353-355, 372): trainer.train(model_file_path) either
\* writes the model file, or reports a preparation failure to
\* on_prepare_error, whose handler raises CRFTrainingError; the file at
\* model_file_path is then what it was.
CRFTrainRun ==
    /\ crf_call.op = "train"
    /\ crf_call.pc = "loop"
    /\ crf_call.next > Len(crf_call.parts)
    /\ crf_calls' = crf_calls \o <<CRFEvent("train", 0, << >>, << >>)>>
    /\ \E prepared \in BOOLEAN :
          IF prepared
          THEN /\ crf' = [crf EXCEPT !.model_file = "model",
                                     !.last_train = "ok"]
               /\ crf_call' =
                     IF crf.save_model_info
                     THEN [crf_call EXCEPT !.pc = "info"]
                     ELSE [crf_call EXCEPT !.pc = "done",
                                           !.outcome = "return"]
          ELSE /\ crf' = [crf EXCEPT !.last_train = "prepare_error"]
               /\ crf_call' = [crf_call EXCEPT !.pc = "done",
                                               !.outcome = "CRFTrainingError"]
    /\ UNCHANGED <<viterbi_vars, fm_vars, structured_vars, rebalance_vars>>

\* train (models.py 376-380): with save_model_info a tagger is opened on
\* the new file, its info kept and the tagger closed; when info raises the
\* call ends before close.
CRFTrainInfo ==
    /\ crf_call.op = "train"
    /\ crf_call.pc = "info"
    /\ \E info_raises \in BOOLEAN :
          IF info_raises
          THEN /\ crf.open_taggers < MaxOpenTaggers
               /\ crf_calls' = crf_calls \o
                     <<CRFEvent("open", 0, << >>, << >>),
                       CRFEvent("info", 0, << >>, << >>)>>
               /\ crf' = [crf EXCEPT !.open_taggers = @ + 1]
               /\ crf_call' = [crf_call EXCEPT !.pc = "done",
                                               !.outcome = "raised"]
          ELSE /\ crf_calls' = crf_calls \o
                     <<CRFEvent("open", 0, << >>, << >>),
                       CRFEvent("info", 0, << >>, << >>),
                       CRFEvent("close", 0, << >>, << >>)>>
               /\ crf' = [crf EXCEPT !.model_info = "info"]
               /\ crf_call' = [crf_call EXCEPT !.pc = "done",
                                               !.outcome = "return"]
    /\ UNCHANGED <<viterbi_vars, fm_vars, structured_vars, rebalance_vars>>

NextCRF ==
    \/ CRFTestOpen
    \/ CRFTestPart
    \/ CRFTestClose
    \/ CRFTrainBegin
    \/ CRFTrainAppend
    \/ CRFTrainRun
    \/ CRFTrainInfo

SpecCRF == InitCRF /\ [][NextCRF]_vars

-----------------------------------------------------------------------------
(***************************************************************************)
(* What the claims about run_viterbi speak of: the weight of one state     *)
(* path, by enumeration of the paths, independently of the dynamic program.*)
(***************************************************************************)
AllPaths(S, T) == [0..(T - 1) -> 0..(S - 1)]

\* The weight of moving from state i at position t-1 to state j at position t.
TransitionBetween(tw, t, i, j) ==
    IF tw.ndim = 3 THEN tw.w[t - 1][i][j] ELSE tw.w[i][j]

\* The product of the node scores and transition weights along positions 0..t
\* of path p.
RECURSIVE PathProduct(_, _, _, _)
PathProduct(ns, tw, p, t) ==
    IF t = 0 THEN ns[p[0]][0]
    ELSE PathProduct(ns, tw, p, t - 1)
            * TransitionBetween(tw, t, p[t - 1], p[t]) * ns[p[t]][t]

\* The sum of the node scores and transition weights along positions 0..t of
\* path p.
RECURSIVE PathTotal(_, _, _, _)
PathTotal(ns, tw, p, t) ==
    IF t = 0 THEN ns[p[0]][0]
    ELSE PathTotal(ns, tw, p, t - 1)
            + TransitionBetween(tw, t, p[t - 1], p[t]) + ns[p[t]][t]

RECURSIVE SetSum(_)
SetSum(pairs) ==
    IF pairs = {} THEN 0
    ELSE LET x == CHOOSE x \in pairs : TRUE IN x[2] + SetSum(pairs \ {x})

CallS == NumStates(vcall.node_scores)
CallT == NumColumns(vcall.node_scores)

MaxPathProduct ==
    LET ws == {PathProduct(vcall.node_scores, vcall.transition_weights, p, CallT - 1) :
                  p \in AllPaths(CallS, CallT)}
    IN CHOOSE m \in ws : \A w \in ws : w <= m

MaxPathTotal ==
    LET ws == {PathTotal(vcall.node_scores, vcall.transition_weights, p, CallT - 1) :
                  p \in AllPaths(CallS, CallT)}
    IN CHOOSE m \in ws : \A w \in ws : w <= m

SumPathProducts ==
    SetSum({<<p, PathProduct(vcall.node_scores, vcall.transition_weights, p, CallT - 1)>> :
               p \in AllPaths(CallS, CallT)})

\* The state index a returned path element stands for.
StateIndexOf(x) ==
    IF Len(decoder.possible_states) > 0
    THEN CHOOSE i \in 0..(Len(decoder.possible_states) - 1) :
             decoder.possible_states[i + 1] = x
    ELSE x

ReturnedIndexPath == [t \in DOMAIN vresult.path |-> StateIndexOf(vresult.path[t])]

IsStatePath(p) == p \in AllPaths(CallS, CallT)

BestPathCall == vcall.op = "run_viterbi" /\ vcall.return_best_path

ScoresNonNegative ==
    /\ \A s \in 0..(CallS - 1), t \in 0..(CallT - 1) : vcall.node_scores[s][t] >= 0
    /\ \A t \in 1..(CallT - 1), i \in 0..(CallS - 1), j \in 0..(CallS - 1) :
           TransitionBetween(vcall.transition_weights, t, i, j) >= 0

ReturnsMaxProduct ==
    /\ vresult.outcome = "return"
    /\ vresult.score = MaxPathProduct
    /\ IsStatePath(ReturnedIndexPath)
    /\ PathProduct(vcall.node_scores, vcall.transition_weights,
                   ReturnedIndexPath, CallT - 1) = MaxPathProduct

\* C1 (as stated): under MAX_MULTIPLY, for every trellis, negative scores
\* included, run_viterbi with return_best_path=True returns the maximum over
\* all state paths of the path product, and a path attaining it.
C1_MaxMultiplyAnyScores ==
    (decoder.semiring = "MAX_MULTIPLY" /\ BestPathCall) => ReturnsMaxProduct

\* C1 (amended): under MAX_MULTIPLY, for every trellis whose node scores and
\* transition weights are all non-negative, run_viterbi with
\* return_best_path=True returns the maximum over all state paths of the path
\* product, and a path attaining it.
C1_MaxMultiplyNonNegative ==
    (decoder.semiring = "MAX_MULTIPLY" /\ BestPathCall /\ ScoresNonNegative)
        => ReturnsMaxProduct

\* A non-negative trellis of 2 states and 3 positions with position-dependent
\* transitions and a zero score, decoded to a path that changes state.
C1_Witness ==
    /\ decoder.semiring = "MAX_MULTIPLY" /\ BestPathCall /\ ScoresNonNegative
    /\ CallS = 2 /\ CallT = 3
    /\ vcall.transition_weights.ndim = 3
    /\ \E s \in 0..1, t \in 0..2 : vcall.node_scores[s][t] = 0
    /\ vresult.outcome = "return" /\ vresult.score > 0
    /\ ReturnedIndexPath[0] # ReturnedIndexPath[1]

\* C2: under MAX_PLUS, for every trellis (stationary matrix with entry [i][j]
\* the weight of moving from i to j, or tensor whose slice t-1 lies between
\* positions t-1 and t), run_viterbi with return_best_path=True returns the
\* maximum over all state paths of the path sum, and a path attaining it.
C2_MaxPlusBestPath ==
    (decoder.semiring = "MAX_PLUS" /\ BestPathCall) =>
        /\ vresult.outcome = "return"
        /\ vresult.score = MaxPathTotal
        /\ IsStatePath(ReturnedIndexPath)
        /\ PathTotal(vcall.node_scores, vcall.transition_weights,
                     ReturnedIndexPath, CallT - 1) = MaxPathTotal

\* A 2-state, 3-position trellis with two different tensor slices and a
\* negative node score whose best path moves from state 1 to state 0, a move
\* the asymmetric slice scores differently from the reverse move.
C2_Witness ==
    /\ decoder.semiring = "MAX_PLUS" /\ BestPathCall
    /\ CallS = 2 /\ CallT = 3
    /\ vcall.transition_weights.ndim = 3
    /\ vcall.transition_weights.w[0] # vcall.transition_weights.w[1]
    /\ \E s \in 0..1, t \in 0..2 : vcall.node_scores[s][t] < 0
    /\ vresult.outcome = "return"
    /\ \E t \in 1..2 : /\ ReturnedIndexPath[t - 1] = 1
                       /\ ReturnedIndexPath[t] = 0
                       /\ vcall.transition_weights.w[t - 1][1][0]
                              # vcall.transition_weights.w[t - 1][0][1]

\* C3: under PLUS_MULTIPLY, run_viterbi with return_best_path=False returns the
\* sum over all state paths of the path product (for one position: the sum of
\* column 0).
C3_PlusMultiplySumsAllPaths ==
    (decoder.semiring = "PLUS_MULTIPLY" /\ vcall.op = "run_viterbi"
        /\ ~vcall.return_best_path) =>
        /\ vresult.outcome = "return"
        /\ vresult.score = SumPathProducts
        /\ (CallT = 1 =>
               vresult.score =
                   SetSum({<<s, vcall.node_scores[s][0]>> : s \in 0..(CallS - 1)}))

\* A 2-state, 3-position trellis with a negative node score and
\* position-dependent transitions whose paths sum to a non-zero score.
C3_Witness ==
    /\ decoder.semiring = "PLUS_MULTIPLY" /\ vcall.op = "run_viterbi"
    /\ ~vcall.return_best_path
    /\ CallS = 2 /\ CallT = 3
    /\ vcall.transition_weights.ndim = 3
    /\ vcall.transition_weights.w[0] # vcall.transition_weights.w[1]
    /\ \E s \in 0..1, t \in 0..2 : vcall.node_scores[s][t] < 0
    /\ vresult.outcome = "return" /\ vresult.score > 2

\* C4: on a decoder whose semiring has no arg_sum, run_viterbi with
\* return_best_path=True and decode end in the assertion error for every
\* trellis, with no trellis column computed and no path or score returned;
\* run_viterbi with return_best_path=False never ends in that error.
C4_NoArgSumNoPath ==
    (decoder.semiring = "PLUS_MULTIPLY" /\ vcall.op # "none") =>
        IF vcall.return_best_path
        THEN /\ vresult.outcome = "AssertionError"
             /\ vresult.columns_computed = 0
             /\ vresult.path = NoPath
        ELSE vresult.outcome = "return"

\* decode on a PLUS_MULTIPLY decoder, for a 2-state, 3-position trellis, has
\* raised.
C4_Witness ==
    /\ decoder.semiring = "PLUS_MULTIPLY"
    /\ vcall.op = "decode" /\ CallS = 2 /\ CallT = 3
    /\ vresult.outcome = "AssertionError"

AllScoresEqual ==
    /\ \A s \in 0..(CallS - 1), t \in 0..(CallT - 1) :
           vcall.node_scores[s][t] = vcall.node_scores[0][0]
    /\ \A t \in 1..(CallT - 1), i \in 0..(CallS - 1), j \in 0..(CallS - 1) :
           TransitionBetween(vcall.transition_weights, t, i, j)
               = TransitionBetween(vcall.transition_weights, 1, 0, 0)

FirstState ==
    IF Len(decoder.possible_states) > 0 THEN decoder.possible_states[1] ELSE 0

\* C5: for a semiring with arg_sum, run_viterbi with return_best_path=True over
\* a trellis of all-equal node scores and all-equal transition weights returns
\* the first state (index 0, or possible_states[0]) at every position.
C5_TiesTakeFirstState ==
    (decoder.semiring \in {"MAX_MULTIPLY", "MAX_PLUS"} /\ BestPathCall
        /\ AllScoresEqual) =>
        /\ vresult.outcome = "return"
        /\ DOMAIN vresult.path = 0..(CallT - 1)
        /\ \A t \in 0..(CallT - 1) : vresult.path[t] = FirstState

\* An all-equal 2-state, 3-position trellis with a position-dependent tensor,
\* decoded with labels.
C5_Witness ==
    /\ decoder.semiring \in {"MAX_MULTIPLY", "MAX_PLUS"}
    /\ BestPathCall /\ AllScoresEqual
    /\ CallS = 2 /\ CallT = 3
    /\ vcall.transition_weights.ndim = 3
    /\ Len(decoder.possible_states) > 0
    /\ vresult.outcome = "return"
    /\ vresult.path = [t \in 0..2 |-> "A"]

-----------------------------------------------------------------------------
(***************************************************************************)
(* What the claims about FeaturizedModel speak of.                         *)
(***************************************************************************)
\* The names of a sequence as a set.
Range(seq) == {seq[i] : i \in 1..Len(seq)}

\* The names the first k extractors of the model register over parts, in the
\* order train registers them.
RECURSIVE RegistrationOrder(_, _)
RegistrationOrder(parts, k) ==
    IF k = 0 THEN << >>
    ELSE RegistrationOrder(parts, k - 1)
            \o SubfeatureNames(fm.feature_extractors[k], parts)

\* The number of distinct names that come before the first occurrence of name.
DistinctBefore(names, name) ==
    LET first == CHOOSE i \in 1..Len(names) :
                     /\ names[i] = name
                     /\ \A j \in 1..(i - 1) : names[j] # name
    IN Cardinality({names[j] : j \in 1..(first - 1)})

\* The dictionary holds exactly these names, numbered from 0 without gaps in
\* the order they were first seen.
DictionaryIsExactly(names) ==
    /\ DOMAIN feature_name_dictionary = Range(names)
    /\ \A name \in DOMAIN feature_name_dictionary :
          feature_name_dictionary[name] = DistinctBefore(names, name)

\* train then extract_subfeature_names, for extractors 1..k in list order.
RegistrationCalls(k) ==
    [i \in 1..(2 * k) |->
        IF i % 2 = 1 THEN <<"train", (i + 1) \div 2>>
        ELSE <<"extract_subfeature_names", i \div 2>>]

\* C6: FeaturizedModel.train first clears the dictionary, then runs train and
\* registers the subfeature names of each extractor in list order, and calls
\* _featurized_train only after all of them: whatever calls came before, the
\* dictionary then holds exactly the names of this train call, numbered
\* without gaps in first-seen order.
C6_TrainRebuildsDictionary ==
    fm_call.op = "train" =>
        LET k == fm_call.next_extractor - 1
            n == Len(fm.feature_extractors)
        IN /\ k \in 0..n
           /\ DictionaryIsExactly(RegistrationOrder(fm_call.parts, k))
           /\ fm_call.pc = "register" =>
                 /\ extractor_calls = RegistrationCalls(k)
                 /\ ~fm_call.reached
           /\ fm_call.pc = "done" =>
                 /\ k = n
                 /\ fm_call.reached
                 /\ Len(extractor_calls) > 2 * n
                 /\ SubSeq(extractor_calls, 1, 2 * n) = RegistrationCalls(n)
                 /\ extractor_calls[2 * n + 1] = <<"_featurized_train", 0>>
                 /\ fm_call.features.shape[2] =
                        Cardinality(Range(RegistrationOrder(fm_call.parts, n)))

\* A train call has completed on a model of three extractors, two of which
\* register a same name, and the dictionary holds four names.
C6_Witness ==
    /\ fm_call.op = "train"
    /\ fm_call.pc = "done"
    /\ Len(fm.feature_extractors) = 3
    /\ Len(RegistrationOrder(fm_call.parts, 3)) = 6
    /\ DictLen(feature_name_dictionary) = 4

\* C7: test on an empty dictionary raises and never reaches _featurized_test;
\* test on a non-empty dictionary always reaches it.
C7_TestNeedsDictionary ==
    fm_call.op = "test" =>
        IF DOMAIN feature_name_dictionary = {}
        THEN /\ fm_call.outcome = "AssertionError"
             /\ ~fm_call.reached
             /\ \A i \in 1..Len(extractor_calls) :
                   extractor_calls[i][1] # "_featurized_test"
        ELSE /\ fm_call.reached
             /\ fm_call.outcome # "AssertionError"
             /\ Len(extractor_calls) > 0
             /\ extractor_calls[1] = <<"_featurized_test", 0>>

\* test has raised on a model that has extractors: it was not trained, or
\* trained on parts that yield no name.
C7_Witness ==
    /\ fm_call.op = "test"
    /\ fm_call.outcome = "AssertionError"
    /\ Len(fm.feature_extractors) > 0
    /\ Len(fm_call.parts) > 0

\* A name of selected_features that the claim calls unresolvable: a simple
\* name, or a component of a composite name, that no configured extractor
\* has.
Unresolvable(feature_extractors, feature_name) ==
    \E c \in Range(Split(feature_name)) :
        \A i \in 1..Len(feature_extractors) : feature_extractors[i].name # c

\* C8 as stated: a selected feature with an unresolvable name makes the
\* construction raise UnrecognizedFlag, before any extractor is called, and
\* no trainable model results.
C8_UnresolvableRaisesUnrecognizedFlag ==
    (/\ fm_call.op = "__init__"
     /\ \E i \in 1..Len(fm_call.selected_features) :
           Unresolvable(fm_call.feature_extractors,
                        fm_call.selected_features[i]))
    => /\ fm.status = "UnrecognizedFlag"
       /\ fm_call.outcome = "UnrecognizedFlag"
       /\ extractor_calls = << >>

\* What holds of C8: an unresolvable simple name always ends the construction
\* with an error, and no construction calls an extractor.
C8_UnresolvableSimpleNameRaises ==
    (/\ fm_call.op = "__init__"
     /\ \E i \in 1..Len(fm_call.selected_features) :
           /\ Len(Split(fm_call.selected_features[i])) = 1
           /\ Unresolvable(fm_call.feature_extractors,
                           fm_call.selected_features[i]))
    => /\ fm.status \in {"UnrecognizedFlag", "FeatureExtractionError"}
       /\ extractor_calls = << >>

\* A model was constructed although a component of a selected composite name
\* matches no configured extractor.
C8_Witness ==
    /\ fm_call.op = "__init__"
    /\ fm.status = "constructed"
    /\ \E i \in 1..Len(fm_call.selected_features) :
          Unresolvable(fm_call.feature_extractors,
                       fm_call.selected_features[i])

\* The subfeature names of a simple categorical extractor over parts, as a
\* set.
NamesOver(e, parts) ==
    {e.name \o <<"=", ToString(ApplyFn(e.fn, parts[i].instance))>> :
        i \in 1..Len(parts)}

\* The model was built from [e1, e2, 'e1:e2'] for two simple categorical
\* extractors, and a train call on it has completed.
TrainedOnPairAndConjunction ==
    /\ fm_call.op = "train"
    /\ fm_call.pc = "done"
    /\ Len(fm.feature_extractors) = 3
    /\ fm.feature_extractors[1].fn # "conjoined"
    /\ fm.feature_extractors[2].fn # "conjoined"
    /\ fm.feature_extractors[1].feature_type = "Categorical"
    /\ fm.feature_extractors[2].feature_type = "Categorical"
    /\ fm.feature_extractors[3].fn = "conjoined"
    /\ fm.feature_extractors[3].name =
          fm.feature_extractors[1].name \o <<SEPARATOR>>
              \o fm.feature_extractors[2].name

\* C9 as stated: the dictionary holds the names of e1, the names of e2, and
\* every name of e1 joined by ':' to every name of e2.
C9_UnionAndProductInNameOrder ==
    TrainedOnPairAndConjunction =>
        LET e1 == fm.feature_extractors[1]
            e2 == fm.feature_extractors[2]
            names1 == NamesOver(e1, fm_call.parts)
            names2 == NamesOver(e2, fm_call.parts)
        IN DOMAIN feature_name_dictionary =
              names1 \cup names2
              \cup {a \o <<SEPARATOR>> \o b : a \in names1, b \in names2}

\* C9: the dictionary holds the names of e1, the names of e2, and every name
\* of the one joined by ':' to every name of the other, the two being the
\* conjoined extractor's components in the order it holds them (that of the
\* configured feature_extractors list).
C9_UnionAndProductInConfiguredOrder ==
    TrainedOnPairAndConjunction =>
        LET e1 == fm.feature_extractors[1]
            e2 == fm.feature_extractors[2]
            c == fm.feature_extractors[3]
            names1 == NamesOver(e1, fm_call.parts)
            names2 == NamesOver(e2, fm_call.parts)
        IN /\ Len(c.extractors) = 2
           /\ DOMAIN feature_name_dictionary =
                 names1 \cup names2
                 \cup {a \o <<SEPARATOR>> \o b :
                          a \in NamesOver(c.extractors[1], fm_call.parts),
                          b \in NamesOver(c.extractors[2], fm_call.parts)}

\* identity, add1 and 'identity:add1' trained on the parts [1, 2]: the eight
\* names of the test.
C9_Witness ==
    /\ TrainedOnPairAndConjunction
    /\ fm.feature_extractors = <<identity, add1,
                                 NewConjoined(<<"identity", ":", "add1">>,
                                              <<identity, add1>>).extractor>>
    /\ fm_call.parts = <<Part("part_type", 1), Part("part_type", 2)>>
    /\ DOMAIN feature_name_dictionary =
          {<<"identity", "=", "1">>, <<"identity", "=", "2">>,
           <<"add1", "=", "2">>, <<"add1", "=", "3">>,
           <<"identity", "=", "1", ":", "add1", "=", "2">>,
           <<"identity", "=", "2", ":", "add1", "=", "3">>,
           <<"identity", "=", "1", ":", "add1", "=", "3">>,
           <<"identity", "=", "2", ":", "add1", "=", "2">>}

\* The subfeatures the model's extractors produce for the parts of the call:
\* <<part index, name, value>>.
ProducedSubfeatures ==
    {<<i - 1,
       ExtractAll(fm.feature_extractors[k], fm_call.parts)[i][1][1],
       ExtractAll(fm.feature_extractors[k], fm_call.parts)[i][1][2]>> :
        k \in 1..Len(fm.feature_extractors), i \in 1..Len(fm_call.parts)}

\* A call of _featurize has ended.
Featurized ==
    /\ fm_call.op \in {"train", "test"}
    /\ fm_call.pc = "done"
    /\ fm_call.reached

\* C10, of every state: the matrix has len(dictionary) columns; an unknown
\* name raises no error; the entries set are those of the produced
\* subfeatures that have a known name and a value other than 0.
C10_OnlyKnownNonZeroEntries ==
    Featurized =>
        /\ fm_call.features.shape[2] = DictLen(feature_name_dictionary)
        /\ fm_call.outcome \in {"return", "IndexError"}
        /\ (\A i \in 1..Len(fm_call.parts) : fm_call.parts[i].type = "part_type")
              => fm_call.outcome = "return"
        /\ fm_call.outcome = "return" =>
              {<<x[1], x[2], fm_call.features.entries[x]>> :
                  x \in DOMAIN fm_call.features.entries}
              = {<<s[1], feature_name_dictionary[s[2]], s[3]>> :
                    s \in {p \in ProducedSubfeatures :
                              /\ p[2] \in DOMAIN feature_name_dictionary
                              /\ p[3] # 0}}

\* C10, of every step: a test call leaves the dictionary as it was.
C10_TestKeepsDictionary ==
    fm_call'.op = "test" => feature_name_dictionary' = feature_name_dictionary

\* C10: the dictionary is frozen at test time, featurization sets entries
\* only for known names and non-zero values and never fails on an unknown
\* name, and the matrix has exactly len(dictionary) columns.
C10_DictionaryFrozenAtTest ==
    [](C10_OnlyKnownNonZeroEntries) /\ [][C10_TestKeepsDictionary]_vars

\* A test call has returned where one part produced a name the dictionary
\* does not know, one produced a zero value, and an entry was set.
C10_Witness ==
    /\ fm_call.op = "test"
    /\ fm_call.outcome = "return"
    /\ \E p \in ProducedSubfeatures :
          p[2] \notin DOMAIN feature_name_dictionary /\ p[3] # 0
    /\ \E p \in ProducedSubfeatures :
          p[2] \in DOMAIN feature_name_dictionary /\ p[3] = 0
    /\ DOMAIN fm_call.features.entries # {}

-----------------------------------------------------------------------------
(***************************************************************************)
(* What the claim about StructuredModel.test speaks of.                    *)
(***************************************************************************)
\* The calls of one method in structured_calls, in order.
StructuredCallsOf(method) ==
    SelectSeq(structured_calls, LAMBDA c : c.method = method)

\* The most likely state sequence of an instance is the one observed, named
\* by the decoder's possible_states when it has them.
ObservedPath(instance) ==
    [t \in DOMAIN instance |->
        IF Len(decoder.possible_states) > 0
        THEN decoder.possible_states[instance[t] + 1]
        ELSE instance[t]]

\* C11: a StructuredModel.test call that returns gives one decoded output
\* per instance, in instance order; output k comes from the one decode call
\* made with instance k, the parts made from instance k and the scores of
\* those parts.
C11_OneOutputPerInstance ==
    (stest.op = "test" /\ stest.outcome = "return") =>
        LET n == Len(stest.instances)
            decodes == StructuredCallsOf("decode")
        IN /\ Len(stest.outputs_by_instance) = n
           /\ Len(decodes) = n
           /\ \A k \in 1..n :
                 LET instance == stest.instances[k]
                     parts == [t \in 1..Cardinality(DOMAIN instance) |->
                                  [instance |-> instance, position |-> t - 1]]
                 IN /\ decodes[k].instance = instance
                    /\ decodes[k].parts = parts
                    /\ \A t \in 1..Len(parts), s \in 0..1 :
                          decodes[k].scores.node_scores[s][t - 1] =
                             IF instance[t - 1] = s THEN 2 ELSE 1
                    /\ stest.outputs_by_instance[k] = ObservedPath(instance)

\* A test call has returned the outputs of three instances, the first two
\* different and of different lengths.
C11_Witness ==
    /\ stest.op = "test"
    /\ stest.outcome = "return"
    /\ Len(stest.instances) = 3
    /\ Cardinality(DOMAIN stest.instances[1]) = 1
    /\ Cardinality(DOMAIN stest.instances[2]) = 2
    /\ stest.outputs_by_instance[1] # stest.outputs_by_instance[2]
    /\ stest.outputs_by_instance[3] = stest.outputs_by_instance[1]

-----------------------------------------------------------------------------
(***************************************************************************)
(* What the claims about rebalance speak of: the class counts of the input *)
(* and of the output, counted on the label vectors.                        *)
(***************************************************************************)
\* The rows of a label vector that carry label c.
RowsOf(labels, c) == {i \in 1..Len(labels) : labels[i] = c}
CountOf(labels, c) == Cardinality(RowsOf(labels, c))
ClassesOf(labels) == {labels[i] : i \in 1..Len(labels)}

\* The count of the largest class of the input.
MajorityCount ==
    CHOOSE m \in {CountOf(rcall.labels, c) : c \in ClassesOf(rcall.labels)} :
        \A c \in ClassesOf(rcall.labels) : CountOf(rcall.labels, c) <= m

\* The rows the output has gained for class c.
Gained(c) == CountOf(rresult.labels, c) - CountOf(rcall.labels, c)

\* rebalance was called with a ratio above 1.0 on at least one row.
RebalanceAboveOne ==
    /\ rcall.op = "rebalance"
    /\ rcall.ratio.inf \/ rcall.ratio.tenths > 10
    /\ Len(rcall.labels) > 0

\* The rows class c, of n rows, is to gain: the smaller of what it lacks to
\* the majority and the whole part of (ratio - 1) * n.
ToGain(c) ==
    LET n == CountOf(rcall.labels, c)
        lacking == MajorityCount - n
        allowed == ((rcall.ratio.tenths - 10) * n) \div 10
    IN IF rcall.ratio.inf \/ lacking <= allowed THEN lacking ELSE allowed

\* C12: for a ratio above 1.0 every class of count n gains exactly
\* int(min(majority - n, (ratio - 1) * n)) rows of its own class, so it ends
\* with at least n, at most the majority's count and at most ratio * n rows
\* (a class of one row, with a ratio r below the majority's count, ends with
\* int(r) rows); when no class gains a row the input is returned as it is.
C12_CountsAddedPerClass ==
    RebalanceAboveOne =>
        /\ rresult.outcome = "return"
        /\ ClassesOf(rresult.labels) = ClassesOf(rcall.labels)
        /\ \A c \in ClassesOf(rcall.labels) :
              LET n == CountOf(rcall.labels, c)
                  m == CountOf(rresult.labels, c)
              IN /\ m = n + ToGain(c)
                 /\ m >= n
                 /\ m <= MajorityCount
                 /\ ~rcall.ratio.inf => 10 * m <= rcall.ratio.tenths * n
                 /\ (/\ n = 1
                     /\ ~rcall.ratio.inf
                     /\ rcall.ratio.tenths < 10 * MajorityCount)
                       => m = rcall.ratio.tenths \div 10
        /\ (\A c \in ClassesOf(rcall.labels) : ToGain(c) = 0)
              => /\ rresult.input_returned
                 /\ rresult.data = rcall.data
                 /\ rresult.labels = rcall.labels

\* With the ratio 2.0 a class of two rows next to one of five has gained two
\* rows, and a class of one row has gained one.
C12_Witness ==
    /\ RebalanceAboveOne
    /\ rcall.ratio = Ratio(20)
    /\ CountOf(rcall.labels, 0) = 2
    /\ CountOf(rcall.labels, 1) = 1
    /\ CountOf(rcall.labels, 2) = 4
    /\ CountOf(rresult.labels, 0) = 4
    /\ CountOf(rresult.labels, 1) = 2
    /\ Len(rresult.labels) = 10

\* C13: with the ratio infinity every class of the output has exactly the
\* count the majority class had in the input, for every input of at least
\* one row.
C13_InfinityEqualizes ==
    (RebalanceAboveOne /\ rcall.ratio.inf) =>
        /\ rresult.outcome = "return"
        /\ ClassesOf(rresult.labels) = ClassesOf(rcall.labels)
        /\ \A c \in ClassesOf(rcall.labels) :
              CountOf(rresult.labels, c) = MajorityCount

\* With the ratio infinity classes of one, two and four rows have all ended
\* with four rows.
C13_Witness ==
    /\ RebalanceAboveOne
    /\ rcall.ratio.inf
    /\ CountOf(rcall.labels, 0) = 1
    /\ CountOf(rcall.labels, 1) = 4
    /\ CountOf(rcall.labels, 2) = 2
    /\ Len(rresult.labels) = 12

\* C14: with a ratio of at most 1.0 the input data and labels are returned
\* unchanged, for every input.
C14_LowRatioUnchanged ==
    (/\ rcall.op = "rebalance"
     /\ ~rcall.ratio.inf
     /\ rcall.ratio.tenths <= 10)
    => /\ rresult.outcome = "return"
       /\ rresult.input_returned
       /\ rresult.data = rcall.data
       /\ rresult.labels = rcall.labels

\* The ratio 0.5 on classes of two and five rows has returned the seven rows.
C14_Witness ==
    /\ rcall.op = "rebalance"
    /\ rcall.ratio = Ratio(5)
    /\ CountOf(rcall.labels, 0) = 2
    /\ CountOf(rcall.labels, 1) = 5
    /\ rresult.outcome = "return"
    /\ Len(rresult.data) = 7

\* rebalance was called with the ratio 2.2 on an input where class c has one
\* row and the majority at least three.
FractionalOnSingleRow(c) ==
    /\ rcall.op = "rebalance"
    /\ rcall.ratio = Ratio(22)
    /\ CountOf(rcall.labels, c) = 1
    /\ MajorityCount >= 3

\* C15 as stated: the class gains exactly int(2.2) = 2 copies of its row.
C15_FractionalAddsTwoCopies ==
    \A c \in ClassLabels :
        FractionalOnSingleRow(c) =>
            /\ rresult.outcome = "return"
            /\ Gained(c) = 2

\* C15: the class ends with exactly int(2.2) = 2 rows: it gains
\* int(2.2 - 1) = 1 copy of its row, never more.
C15_FractionalEndsWithTwoRows ==
    \A c \in ClassLabels :
        FractionalOnSingleRow(c) =>
            /\ rresult.outcome = "return"
            /\ CountOf(rresult.labels, c) = 2
            /\ Gained(c) = 1

\* The case of the test: labels [1, 1, 0, 1] with the ratio 2.2 have become
\* five rows, the last a copy of row 2.
C15_Witness ==
    /\ FractionalOnSingleRow(0)
    /\ rcall.labels = <<1, 1, 0, 1>>
    /\ ~rcall.rebalance_stochastically
    /\ rresult.data = <<0, 1, 2, 3, 2>>
    /\ rresult.labels = <<1, 1, 0, 1, 0>>

\* C16: the output begins with the input's rows and labels, unchanged and
\* in order; every row after them is a copy of an input row; every row of
\* the output carries the label that row has in the input.
C16_OriginalsFirstLabelsKept ==
    (rcall.op = "rebalance" /\ rresult.outcome = "return") =>
        LET n == Len(rcall.data) IN
        /\ Len(rresult.data) >= n
        /\ Len(rresult.labels) = Len(rresult.data)
        /\ SubSeq(rresult.data, 1, n) = rcall.data
        /\ SubSeq(rresult.labels, 1, n) = rcall.labels
        /\ \A k \in 1..Len(rresult.data) :
              /\ \E i \in 1..n : rresult.data[k] = rcall.data[i]
              /\ \A i \in 1..n :
                    rresult.data[k] = rcall.data[i]
                       => rresult.labels[k] = rcall.labels[i]

\* In stochastic mode three rows were added to a class of two rows and one
\* of them is the class's second row.
C16_Witness ==
    /\ rcall.op = "rebalance"
    /\ rcall.rebalance_stochastically
    /\ rcall.labels = <<1, 0, 1, 1, 0, 1, 1>>
    /\ rcall.ratio.inf
    /\ rresult.outcome = "return"
    /\ rresult.data = <<0, 1, 2, 3, 4, 5, 6, 4, 1, 4>>

\* The classes of the input, in the order of their slices.
RECURSIVE ClassesInOrder(_)
ClassesInOrder(classes) ==
    IF classes = {} THEN << >>
    ELSE LET least == CHOOSE c \in classes : \A d \in classes : c <= d
         IN <<least>> \o ClassesInOrder(classes \ {least})

\* The rows of class c in the input, in order, as row values.
RECURSIVE BlockFrom(_, _)
BlockFrom(c, i) ==
    IF i > Len(rcall.labels) THEN << >>
    ELSE IF rcall.labels[i] = c THEN <<rcall.data[i]>> \o BlockFrom(c, i + 1)
    ELSE BlockFrom(c, i + 1)

\* The rows gained by the classes before the j-th.
RECURSIVE GainedBefore(_, _)
GainedBefore(order, j) ==
    IF j <= 1 THEN 0
    ELSE GainedBefore(order, j - 1) + Gained(order[j - 1])

\* C17: in deterministic mode a class of n rows that is to gain c rows gains
\* floor(c / n) repetitions of its block of rows, in order, followed by the
\* first c mod n rows of the block: exactly c rows, what is still needed
\* after the repetitions being c mod n, never negative.
C17_FullRepetitionsThenPrefix ==
    (/\ RebalanceAboveOne
     /\ ~rcall.rebalance_stochastically)
    => /\ rresult.outcome = "return"
       /\ LET order == ClassesInOrder(ClassesOf(rcall.labels))
              n0 == Len(rcall.data)
          IN \A j \in 1..Len(order) :
                LET block == BlockFrom(order[j], 1)
                    n == Len(block)
                    c == ToGain(order[j])
                    first == n0 + GainedBefore(order, j)
                    repetitions == c \div n
                    still_needed == c - repetitions * n
                IN /\ Gained(order[j]) = c
                   /\ still_needed >= 0
                   /\ still_needed < n
                   /\ Len(rresult.data) >= first + c
                   /\ \A k \in 1..(repetitions * n) :
                         rresult.data[first + k] = block[((k - 1) % n) + 1]
                   /\ \A k \in 1..still_needed :
                         rresult.data[first + repetitions * n + k] = block[k]

\* A class of two rows has gained three: its block once, then its first
\* row; and a class of one row before it has gained its row four times.
C17_Witness ==
    /\ RebalanceAboveOne
    /\ ~rcall.rebalance_stochastically
    /\ rcall.ratio.inf
    /\ rcall.labels = <<2, 1, 2, 2, 1, 2, 2>>
    /\ rresult.data = <<0, 1, 2, 3, 4, 5, 6, 1, 4, 1>>

-----------------------------------------------------------------------------
(***************************************************************************)
(* What the claims about CRFModel speak of: the calls a train or test has  *)
(* made on the tagger, and the taggers still open when the call has ended. *)
(***************************************************************************)
\* The positions of crf_calls that are calls of the method.
CRFCallsOf(method) ==
    {k \in 1..Len(crf_calls) : crf_calls[k].method = method}

\* A train or test call has ended, by returning or by raising.
CRFCallEnded == crf_call.op # "none" /\ crf_call.pc = "done"

\* C18 as stated: when a call of train or test has ended, by returning or
\* by raising, every tagger it opened has been closed.
C18_TaggerClosedOnEveryExit ==
    CRFCallEnded =>
        /\ crf.open_taggers = 0
        /\ Cardinality(CRFCallsOf("close")) = Cardinality(CRFCallsOf("open"))

\* A test has raised in _label_part for its first part: the tagger it
\* opened was never closed.
C18_Witness ==
    /\ crf_call.op = "test"
    /\ crf_call.pc = "done"
    /\ crf_call.outcome = "raised"
    /\ crf_call.parts[1].fails = "_label_part"
    /\ CRFCallsOf("open") = {1}
    /\ CRFCallsOf("close") = {}
    /\ crf.open_taggers = 1

\* What does hold: a call that returns has closed every tagger it opened.
C18_ClosedWhenReturning ==
    (CRFCallEnded /\ crf_call.outcome = "return") =>
        Cardinality(CRFCallsOf("close")) = Cardinality(CRFCallsOf("open"))

\* C19 as stated: a train on which the trainer reports a preparation
\* failure raises CRFTrainingError, and a test that follows it opens no
\* model file and tags with none.
C19_NoModelUsedAfterFailedTrain ==
    /\ (/\ crf_call.op = "train"
        /\ crf_call.pc = "done"
        /\ crf.last_train = "prepare_error")
          => crf_call.outcome = "CRFTrainingError"
    /\ (crf_call.op = "test" /\ crf.last_train = "prepare_error")
          => /\ CRFCallsOf("open") = {}
             /\ CRFCallsOf("tag") = {}

\* After a train that failed in preparation a test has opened the file an
\* earlier train wrote, tagged a part with it and returned.
C19_Witness ==
    /\ crf_call.op = "test"
    /\ crf.last_train = "prepare_error"
    /\ crf.model_file = "model"
    /\ crf_call.outcome = "return"
    /\ CRFCallsOf("open") = {1}
    /\ CRFCallsOf("tag") # {}

\* What does hold: a train that ended on a preparation failure has raised
\* CRFTrainingError.
C19_FailedTrainRaises ==
    (/\ crf_call.op = "train"
     /\ crf_call.pc = "done"
     /\ crf.last_train = "prepare_error")
    => crf_call.outcome = "CRFTrainingError"

\* The feature mappings of a part: for each observation, in order, the
\* observation under "word" and, when the extractor "next" is selected,
\* the observation after it (or "END") under "next".
ExpectedFeatures(part) ==
    LET observations == part.observations IN
    [k \in 1..Len(observations) |->
        [name \in {crf.feature_extractors[e] :
                      e \in 1..Len(crf.feature_extractors)} |->
            IF name = "word" THEN observations[k]
            ELSE IF k < Len(observations) THEN observations[k + 1]
            ELSE "END"]]

\* C20: in test the tagger is opened before the first tag and closed after
\* the last; every tag is followed at once by _label_part for the same part
\* with the labels tagged; and a test in which nothing raises has made, for
\* every part in input order, exactly one tag on the features of that
\* part's observations, one mapping per position, and one _label_part.
C20_TagEachPartInOrder ==
    crf_call.op = "test" =>
        /\ \A k \in CRFCallsOf("tag") :
              /\ crf_calls[1].method = "open"
              /\ \A c \in CRFCallsOf("close") : c > k
        /\ \A c \in CRFCallsOf("close") : c = Len(crf_calls)
        /\ \A k \in CRFCallsOf("tag") :
              k < Len(crf_calls) =>
                 /\ crf_calls[k + 1].method = "_label_part"
                 /\ crf_calls[k + 1].part = crf_calls[k].part
                 /\ crf_calls[k + 1].labels = crf_calls[k].labels
        /\ crf_call.outcome = "return" =>
              LET n == Len(crf_call.parts) IN
              /\ Len(crf_calls) = 3 * n + 2
              /\ crf_calls[1].method = "open"
              /\ crf_calls[3 * n + 2].method = "close"
              /\ \A p \in 1..n :
                    /\ crf_calls[3 * p - 1].method = "_sequences_for_part"
                    /\ crf_calls[3 * p - 1].part = p
                    /\ crf_calls[3 * p].method = "tag"
                    /\ crf_calls[3 * p].part = p
                    /\ crf_calls[3 * p].features =
                          ExpectedFeatures(crf_call.parts[p])
                    /\ Len(crf_calls[3 * p].labels) =
                          Len(crf_call.parts[p].observations)
                    /\ crf_calls[3 * p + 1].method = "_label_part"
                    /\ crf_calls[3 * p + 1].part = p
                    /\ crf_calls[3 * p + 1].labels = crf_calls[3 * p].labels

\* A test of the parts [a] and [b, a] with both extractors has returned:
\* open, then each part tagged and labelled, then close.
C20_Witness ==
    /\ crf_call.op = "test"
    /\ crf_call.outcome = "return"
    /\ Len(crf.feature_extractors) = 2
    /\ Len(crf_call.parts) = 2
    /\ crf_call.parts[1].observations = <<"a">>
    /\ crf_call.parts[2].observations = <<"b", "a">>
    /\ Len(crf_calls) = 8
    /\ crf_calls[6].method = "tag"
    /\ crf_calls[6].labels = <<"B", "O">>
    /\ crf_calls[7].method = "_label_part"

-----------------------------------------------------------------------------
(***************************************************************************)
(* The path run_viterbi reconstructs and the score it returns with it.     *)
(***************************************************************************)
\* The score of the returned path in the decoder's semiring: the product,
\* or under MAX_PLUS the sum, of its node scores and transition weights.
ReturnedPathScore ==
    IF decoder.semiring = "MAX_PLUS"
    THEN PathTotal(vcall.node_scores, vcall.transition_weights,
                   ReturnedIndexPath, CallT - 1)
    ELSE PathProduct(vcall.node_scores, vcall.transition_weights,
                     ReturnedIndexPath, CallT - 1)

\* What an element of the returned path may be: a state index, or its label
\* when the decoder has possible_states.
ValidPathElements ==
    IF Len(decoder.possible_states) > 0
    THEN {decoder.possible_states[i + 1] : i \in 0..(CallS - 1)}
    ELSE 0..(CallS - 1)

\* C21: for every semiring with an arg_sum and every trellis, the path
\* run_viterbi returns with return_best_path=True has exactly one element per
\* position, each a valid state index (or its possible_states label); the
\* semiring product of the node scores and transition weights along that
\* path equals the returned score; and the reconstruction reads the columns
\* 1 to num_columns-1 of predecessors, never column 0, whose entries are the
\* sentinel.
C21_PathConsistentWithScore ==
    (BestPathCall /\ decoder.semiring \in {"MAX_MULTIPLY", "MAX_PLUS"}) =>
        /\ vresult.outcome = "return"
        /\ DOMAIN vresult.path = 0..(CallT - 1)
        /\ \A t \in 0..(CallT - 1) : vresult.path[t] \in ValidPathElements
        /\ ReturnedPathScore = vresult.score
        /\ vresult.predecessors_read = 1..(CallT - 1)
        /\ 0 \notin vresult.predecessors_read

\* A MAX_MULTIPLY decoder with possible_states on a 2-state, 3-position
\* trellis with a negative node score has returned a labelled path that
\* changes state, with a negative score, having read columns 1 and 2.
C21_Witness ==
    /\ BestPathCall
    /\ decoder.semiring = "MAX_MULTIPLY"
    /\ decoder.possible_states = Labels
    /\ CallS = 2 /\ CallT = 3
    /\ \E s \in 0..1, t \in 0..2 : vcall.node_scores[s][t] < 0
    /\ vresult.outcome = "return"
    /\ vresult.path[0] = "B" /\ vresult.path[1] = "A" /\ vresult.path[2] = "A"
    /\ vresult.score < 0
    /\ vresult.predecessors_read = {1, 2}

-----------------------------------------------------------------------------
(***************************************************************************)
(* The feature matrix and the labels of a ClassifierModel against the      *)
(* parts of part_type of the list it was called with.                      *)
(***************************************************************************)
\* _featurize has run in the train or test call that is made or was made
\* last.
FeaturizeReached == fm_call.op \in {"train", "test"} /\ fm_call.reached

\* The number of parts of part_type among the first i parts of the call.
PartTypeRank(i) ==
    Cardinality({k \in 1..i : fm_call.parts[k].type = "part_type"})

\* The matrix has one row per part of part_type, and row k holds what the
\* extractors extract from the k-th such part: the matrix is the one built
\* from the parts of part_type alone.
RowsFollowPartType ==
    /\ fm_call.outcome = "return"
    /\ fm_call.features.shape[1] = PartTypeRank(Len(fm_call.parts))
    /\ fm_call.features.entries =
          _featurize(fm.feature_extractors, feature_name_dictionary,
                     RelevantParts(fm_call.parts)).entries

\* After test the k-th part of part_type carries the label predicted for
\* row k (the label k), and a part of another type the label it had (0).
LabelsFollowPartType ==
    \A i \in 1..Len(fm_call.parts) :
        fm_call.parts[i].label =
            IF fm_call.parts[i].type = "part_type" THEN PartTypeRank(i) ELSE 0

\* C22 as stated: for every list of parts, mixed ones included, the matrix
\* has exactly one row per part of part_type, row k holding the features of
\* the k-th such part, no write falls outside the matrix, and test writes
\* predicted label k onto the k-th part of part_type and relabels no part of
\* another type.
C22_RowsAndLabelsFollowPartType ==
    FeaturizeReached =>
        /\ RowsFollowPartType
        /\ fm_call.op = "test" => LabelsFollowPartType

\* A test of a part of another type followed by a part of part_type has
\* returned: the label of the only row is on the part of the other type and
\* the part of part_type has none.
C22_Witness ==
    /\ fm_call.op = "test"
    /\ fm_call.reached
    /\ fm_call.outcome = "return"
    /\ Len(fm_call.parts) = 2
    /\ fm_call.parts[1].type = "other_type"
    /\ fm_call.parts[1].label = 1
    /\ fm_call.parts[2].type = "part_type"
    /\ fm_call.parts[2].label = 0
    /\ fm_call.features.shape[1] = 1

\* A test of a part of another type followed by a part of part_type has
\* ended in the IndexError of a write to row 1 of a matrix of one row.
C22_WriteOutsideMatrix ==
    /\ fm_call.op = "test"
    /\ fm_call.reached
    /\ fm_call.outcome = "IndexError"
    /\ Len(fm_call.parts) = 2
    /\ fm_call.parts[1].type = "other_type"
    /\ fm_call.parts[2].type = "part_type"
    /\ fm_call.features.shape[1] = 1

\* What does hold: for a list whose parts are all of part_type the matrix
\* and the labels are as C22 says.
C22_ListsOfPartTypeOnly ==
    (/\ FeaturizeReached
     /\ \A i \in 1..Len(fm_call.parts) : fm_call.parts[i].type = "part_type")
    => /\ RowsFollowPartType
       /\ fm_call.op = "test" => LabelsFollowPartType

=============================================================================
